---------------------------- MODULE Spec2Model ----------------------------
(***************************************************************************)
(* Model of the smart-recipe-generator back end: the Recipe / Rating /     *)
(* Favorite collections, the ratings and favorites route handlers, the     *)
(* recipes route, and the recommendation route with its preference profile *)
(* builder and candidate scorer.                                           *)
(*                                                                         *)
(* Two copies of the recommendation route exist in the repository:         *)
(*   "route"  : src/src/app/api/recommendations/route.ts                   *)
(*   "typed"  : src/src/app/config/geminiConfig.ts, lines 164-385          *)
(* Both are modelled; an operator that differs between them takes the copy *)
(* as its first parameter.                                                 *)
(*                                                                         *)
(* Numbers: JavaScript numbers are modelled as exact rationals [n, d]      *)
(* (d > 0); Infinity and -Infinity are modelled as extended numbers.       *)
(***************************************************************************)
EXTENDS Integers, Sequences, FiniteSets, TLC

VARIABLES
    recipes,      \* Recipe collection, in insertion (natural) order
    ratings,      \* Rating collection, in insertion order
    favorites,    \* Favorite collection, in insertion order
    nextId,       \* number of ObjectIds handed out to recipes so far
    posts,        \* POST /api/ratings requests between two awaits
    response,     \* body of the last answered GET /api/recommendations
    ops,          \* number of requests that passed validation so far
    phase,        \* scorer harness: "input" | "profiled" | "scored" | "off"
    impl,         \* scorer harness: the copy under test
    preferred,    \* scorer harness: preferredRecipes
    userRatings,  \* scorer harness: userRatings
    candidate,    \* scorer harness: the candidate recipe
    profile,      \* scorer harness: result of buildPreferenceProfile
    score,        \* scorer harness: result of calculateRecipeScore
    service,      \* ImageRecognitionService: its model field and its last call
    generation,   \* RecipeGenerationService: its last generateRecipes call
    conn,         \* dbConnect: the cached connection and the calls under way
    seeding,      \* GET /api/recipes requests between two awaits
    client,       \* the recipe page: its generated recipes and their database ids
    dialog        \* the image recognition dialog: its React state and its camera streams

dbVars    == <<recipes, ratings, favorites, nextId, posts, response, ops>>
harnessVars == <<phase, impl, preferred, userRatings, candidate, profile, score>>
restVars  == <<generation, conn, seeding, client, dialog>>
scoreVars == <<phase, impl, preferred, userRatings, candidate, profile, score, service, generation, conn, seeding,
               client, dialog>>
vars      == <<recipes, ratings, favorites, nextId, posts, response, ops, phase, impl, preferred, userRatings, candidate,
               profile, score, service, generation, conn, seeding, client, dialog>>

---------------------------------------------------------------------------
(* Bounds of the model *)

MaxRecipes   == 2    \* recipes ever created
MaxOps       == 3    \* requests accepted in one behaviour
MaxInflight  == 2    \* rating requests between two awaits at a time
MaxLimit     == 1    \* largest explicit ?limit= value
MaxPreferred == 2    \* scorer harness: length of preferredRecipes
MaxPool      == 3    \* ranking runs: recipes stored when the requests start
MaxItems     == 2    \* elements of a JSON array that Gemini answers with
MaxCalls     == 3    \* dbConnect calls of one process
MaxClicks    == 4    \* clicks on the recipe page
MaxGestures  == 3    \* clicks and drops on the recognition dialog

Copies == {"route", "typed"}
Users  == {"u1", "u2"}
NutritionFields == <<"calories", "protein", "carbs", "fat">>

---------------------------------------------------------------------------
(* Sequences *)

Range(s) == {s[i] : i \in DOMAIN s}

Min(a, b) == IF a <= b THEN a ELSE b
Max(a, b) == IF a >= b THEN a ELSE b

Take(s, n) == SubSeq(s, 1, Min(Len(s), Max(n, 0)))

RECURSIVE SumSeq(_)
SumSeq(s) == IF s = <<>> THEN 0 ELSE Head(s) + SumSeq(Tail(s))

\* all orderings of the elements of a sequence
Perms(s) ==
    {p \in [DOMAIN s -> DOMAIN s] : \A i, j \in DOMAIN s : i # j => p[i] # p[j]}

Permuted(s, p) == [i \in DOMAIN s |-> s[p[i]]]

Has(doc, f) == f \in DOMAIN doc

---------------------------------------------------------------------------
(* Numbers *)

RECURSIVE GCD(_, _)
GCD(a, b) == IF b = 0 THEN a ELSE GCD(b, a % b)

\* the rational n / d (d > 0) in lowest terms
Q(n, d) == LET g == GCD(IF n < 0 THEN -n ELSE n, d)
           IN [n |-> n \div g, d |-> d \div g]
QInt(n) == Q(n, 1)
\* sums and products cancel the common factors first, which keeps the
\* intermediate products small
QAdd(a, b) == LET g == GCD(a.d, b.d)
              IN Q(a.n * (b.d \div g) + b.n * (a.d \div g), (a.d \div g) * b.d)
QSub(a, b) == LET g == GCD(a.d, b.d)
              IN Q(a.n * (b.d \div g) - b.n * (a.d \div g), (a.d \div g) * b.d)
QMul(a, b) == LET g == GCD(IF a.n < 0 THEN -a.n ELSE a.n, b.d)
                  h == GCD(IF b.n < 0 THEN -b.n ELSE b.n, a.d)
              IN Q((a.n \div g) * (b.n \div h), (a.d \div h) * (b.d \div g))
QDiv(a, b) == IF b.n > 0 THEN Q(a.n * b.d, a.d * b.n) ELSE Q(-(a.n * b.d), a.d * (-b.n))
QAbs(a) == IF a.n < 0 THEN Q(-a.n, a.d) ELSE a
QEq(a, b) == a.n * b.d = b.n * a.d
QLt(a, b) == LET g == GCD(a.d, b.d) IN a.n * (b.d \div g) < b.n * (a.d \div g)
QLe(a, b) == LET g == GCD(a.d, b.d) IN a.n * (b.d \div g) <= b.n * (a.d \div g)
QMax(a, b) == IF QLt(a, b) THEN b ELSE a
QZero == QInt(0)

\* extended numbers: Infinity, -Infinity, or a finite rational
Infinity    == [inf |-> 1, q |-> QZero]
NegInfinity == [inf |-> -1, q |-> QZero]
Fin(q)      == [inf |-> 0, q |-> q]

\* Math.min / Math.max of an extended number and a finite one
MathMin(e, q) == IF e.inf = 1 THEN Fin(q)
                 ELSE IF e.inf = -1 THEN e
                 ELSE IF QLt(q, e.q) THEN Fin(q) ELSE e
MathMax(e, q) == IF e.inf = -1 THEN Fin(q)
                 ELSE IF e.inf = 1 THEN e
                 ELSE IF QLt(e.q, q) THEN Fin(q) ELSE e

\* max - min on extended numbers (Infinity - Infinity does not arise: the two
\* bounds of a band are updated together)
ExtSub(mx, mn) == IF mx.inf = 0 /\ mn.inf = 0 THEN Fin(QSub(mx.q, mn.q))
                  ELSE IF mx.inf = -1 \/ mn.inf = 1 THEN NegInfinity
                  ELSE Infinity

ExtPositive(e) == e.inf = 1 \/ (e.inf = 0 /\ e.q.n > 0)

---------------------------------------------------------------------------
(* Identifiers.  A recipe id travels as a string in request bodies and     *)
(* query strings and is stored as an ObjectId (Rating.recipeId,            *)
(* Favorite.recipeId, Recipe._id); the two never compare equal.            *)

ObjectId(hex) == [type |-> "ObjectId", hex |-> hex]
Str(hex)      == [type |-> "string", hex |-> hex]

\* String(x) of an ObjectId or a string
String(x) == Str(x.hex)

\* Mongoose casts a filter value to the schema type of the path
CastObjectId(x) == ObjectId(x.hex)

RecipeIdStrings == {Str(i) : i \in 1..MaxRecipes}

---------------------------------------------------------------------------
(* Documents and collections *)

\* request bodies of POST /api/recipes used by the model
Bodies == {
    [name |-> "A", ingredients |-> <<"egg", "rice">>, cuisine |-> "Asian",
     difficulty |-> "Medium", tags |-> <<"quick">>,
     nutrition |-> [calories |-> 4, protein |-> 2, carbs |-> 3, fat |-> 1]],
    [name |-> "B", ingredients |-> <<"egg", "egg">>, tags |-> <<"quick", "vegan">>,
     nutrition |-> [calories |-> 2, protein |-> 2]],
    [ingredients |-> <<"rice">>]
}

\* NutritionSchema: every field is a Number with default 0
NutritionSchema(n) ==
    [f \in Range(NutritionFields) |-> IF Has(n, f) THEN n[f] ELSE 0]

\* RecipeSchema applied by Recipe.create: arrays default to [], nutrition to
\* {} (then NutritionSchema's defaults), difficulty to 'Easy'; cuisine is
\* optional.  The schema has no avgRating and no ratingsCount path.
RecipeSchema(body, hex) ==
    LET base == [_id         |-> ObjectId(hex),
                 name        |-> body.name,
                 ingredients |-> IF Has(body, "ingredients") THEN body.ingredients ELSE <<>>,
                 tags        |-> IF Has(body, "tags") THEN body.tags ELSE <<>>,
                 nutrition   |-> NutritionSchema(IF Has(body, "nutrition")
                                                 THEN body.nutrition ELSE <<>>),
                 difficulty  |-> IF Has(body, "difficulty") THEN body.difficulty ELSE "Easy"]
    IN IF Has(body, "cuisine") THEN base @@ [cuisine |-> body.cuisine] ELSE base

RecipeSchemaPaths ==
    {"name", "ingredients", "instructions", "nutrition", "cuisine", "tags",
     "difficulty", "time"}

\* Mongoose casts an update against the schema in strict mode (the default):
\* $set keys that are not schema paths are dropped before the write.
castUpdate(paths, set) == [f \in (DOMAIN set) \cap paths |-> set[f]]

\* Model.findByIdAndUpdate(id, {$set: set}) on the Recipe collection
findByIdAndUpdate(coll, id, set) ==
    LET kept == castUpdate(RecipeSchemaPaths, set)
    IN [i \in DOMAIN coll |->
          IF coll[i]._id = CastObjectId(id) THEN kept @@ coll[i] ELSE coll[i]]

\* an upsert that inserts without looking for the document of the key
upsertInsertAlways(coll, userId, recipeId, set) ==
    Append(coll, set @@ [userId |-> userId, recipeId |-> CastObjectId(recipeId)])

\* Model.findOneAndUpdate({userId, recipeId}, {$set: set}, {upsert: true}) on a
\* collection with the unique index {userId: 1, recipeId: 1}: the matching
\* document is updated in place, or one is inserted when there is none.  The
\* operation is atomic on the server; update validators are not run
\* (runValidators is not passed), so the schema's min / max are not applied.
findOneAndUpdate(coll, userId, recipeId, set) ==
    LET oid == CastObjectId(recipeId)
        hit == {i \in DOMAIN coll : coll[i].userId = userId /\ coll[i].recipeId = oid}
    IN IF hit # {}
       THEN LET i == CHOOSE j \in hit : \A k \in hit : j <= k
            IN [coll EXCEPT ![i] = set @@ coll[i]]
       ELSE Append(coll, set @@ [userId |-> userId, recipeId |-> oid])

\* a delete that removes nothing
deleteNone(coll, userId, recipeId) == coll

\* Model.deleteOne({userId, recipeId}): removes the first matching document
deleteOne(coll, userId, recipeId) ==
    LET oid == CastObjectId(recipeId)
        hit == {i \in DOMAIN coll : coll[i].userId = userId /\ coll[i].recipeId = oid}
    IN IF hit = {} THEN coll
       ELSE LET i == CHOOSE j \in hit : \A k \in hit : j <= k
            IN SubSeq(coll, 1, i - 1) \o SubSeq(coll, i + 1, Len(coll))

\* Rating.aggregate([{$match: {recipeId}}, {$group: count, sum}, {$project: avg}]).
\* An aggregation pipeline is sent as written: recipeId is the string of the
\* request body, the stored recipeId is an ObjectId.
aggregate(coll, recipeId) ==
    LET matched == SelectSeq(coll, LAMBDA d : d.recipeId = recipeId)
        sum     == SumSeq([i \in DOMAIN matched |-> matched[i].rating])
    IN IF matched = <<>> THEN <<>>
       ELSE <<[count |-> Len(matched), sum |-> sum, avg |-> Q(sum, Len(matched))]>>

\* a find that ignores whose documents it is asked for
findByAnyone(coll, userId) == coll

\* Model.find({userId})
findByUser(coll, userId) == SelectSeq(coll, LAMBDA d : d.userId = userId)

---------------------------------------------------------------------------
(* Preference profile builder: buildPreferenceProfile *)

FavoriteWeight == 3

\* a JavaScript Map: a function on the keys set so far
MapGet(m, k) == IF k \in DOMAIN m THEN m[k] ELSE 0

\* const current = map.get(k) || 0; map.set(k, current + weight)
MapAdd(m, k, w) ==
    IF k \in DOMAIN m THEN [m EXCEPT ![k] = @ + w] ELSE m @@ (k :> w)

\* keys.forEach(k => MapAdd(m, k, w))
RECURSIVE MapAddAll(_, _, _)
MapAddAll(m, keys, w) ==
    IF keys = <<>> THEN m ELSE MapAddAll(MapAdd(m, Head(keys), w), Tail(keys), w)

\* a weight whose default for a favorite is 1
recipeWeightDefaultOne(recipe, ratingDocs) ==
    LET found == SelectSeq(ratingDocs, LAMBDA r : String(r.recipeId) = String(recipe._id))
    IN IF found # <<>> THEN Head(found).rating ELSE 1

\* userRatings.find(r => String(r.recipeId) === String(recipe._id));
\* weight = rating ? rating.rating : 3
recipeWeight(recipe, ratingDocs) ==
    LET found == SelectSeq(ratingDocs, LAMBDA r : String(r.recipeId) = String(recipe._id))
    IN IF found # <<>> THEN Head(found).rating ELSE FavoriteWeight

\* whether field f of the recipe's nutrition enters the band:
\*   route copy:  if (calories)              - defined and not 0
\*   typed copy:  if (calories !== undefined)
entersBand(copy, recipe, f) ==
    /\ Has(recipe, "nutrition")
    /\ Has(recipe.nutrition, f)
    /\ (copy = "route" => recipe.nutrition[f] # 0)

EmptyProfile ==
    [ingredients  |-> <<>>,
     cuisines     |-> <<>>,
     difficulties |-> <<>>,
     tags         |-> <<>>,
     nutritionRanges |->
        [f \in Range(NutritionFields) |->
            [min |-> Infinity, max |-> NegInfinity, avg |-> QZero]]]

\* the accumulator of the forEach: the profile, the running totals and recipeCount
EmptyAcc ==
    [profile |-> EmptyProfile,
     total   |-> [f \in Range(NutritionFields) |-> 0],
     recipeCount |-> 0]

\* body of preferredRecipes.forEach
profileStep(copy, acc, recipe, ratingDocs) ==
    LET weight == recipeWeight(recipe, ratingDocs)
        p      == acc.profile
        band(f) ==
            IF entersBand(copy, recipe, f)
            THEN [min |-> MathMin(p.nutritionRanges[f].min, QInt(recipe.nutrition[f])),
                  max |-> MathMax(p.nutritionRanges[f].max, QInt(recipe.nutrition[f])),
                  avg |-> p.nutritionRanges[f].avg]
            ELSE p.nutritionRanges[f]
    IN [profile |->
          [ingredients  |-> IF Has(recipe, "ingredients")
                            THEN MapAddAll(p.ingredients, recipe.ingredients, weight)
                            ELSE p.ingredients,
           cuisines     |-> IF Has(recipe, "cuisine") /\ recipe.cuisine # ""
                            THEN MapAdd(p.cuisines, recipe.cuisine, weight)
                            ELSE p.cuisines,
           difficulties |-> IF Has(recipe, "difficulty") /\ recipe.difficulty # ""
                            THEN MapAdd(p.difficulties, recipe.difficulty, weight)
                            ELSE p.difficulties,
           tags         |-> IF Has(recipe, "tags")
                            THEN MapAddAll(p.tags, recipe.tags, weight)
                            ELSE p.tags,
           nutritionRanges |-> [f \in Range(NutritionFields) |-> band(f)]],
        total |-> [f \in Range(NutritionFields) |->
                     IF entersBand(copy, recipe, f)
                     THEN acc.total[f] + recipe.nutrition[f] ELSE acc.total[f]],
        recipeCount |-> IF Has(recipe, "nutrition")
                        THEN acc.recipeCount + 1 ELSE acc.recipeCount]

RECURSIVE profileFold(_, _, _, _)
profileFold(copy, acc, recipeDocs, ratingDocs) ==
    IF recipeDocs = <<>> THEN acc
    ELSE profileFold(copy, profileStep(copy, acc, Head(recipeDocs), ratingDocs),
                     Tail(recipeDocs), ratingDocs)

buildPreferenceProfile(copy, preferredRecipes, ratingDocs) ==
    LET acc == profileFold(copy, EmptyAcc, preferredRecipes, ratingDocs)
        p   == acc.profile
    IN IF acc.recipeCount > 0
       THEN [p EXCEPT !.nutritionRanges =
                [f \in Range(NutritionFields) |->
                    [@[f] EXCEPT !.avg = Q(acc.total[f], acc.recipeCount)]]]
       ELSE p

---------------------------------------------------------------------------
(* Candidate scorer: calculateRecipeScore *)

IngredientFactor == 2
CalorieScale     == 5
ProteinScale     == 3
RatingScale      == 5

CuisineFactor    == Q(3, 2)
DifficultyFactor == Q(6, 5)
TagFactor        == Q(13, 10)
HalfFactor       == Q(1, 2)

\* Math.log(n), to three decimals, for the counts of the model
MathLog(n) ==
    CASE n <= 1 -> Q(0, 1000)
      [] n = 2  -> Q(693, 1000)
      [] n = 3  -> Q(1099, 1000)
      [] n = 4  -> Q(1386, 1000)
      [] OTHER  -> Q(1609, 1000)

\* sum over keys of (map.get(key) || 0)
RECURSIVE MapSum(_, _)
MapSum(m, keys) ==
    IF keys = <<>> THEN 0 ELSE MapGet(m, Head(keys)) + MapSum(m, Tail(keys))

\* an ingredient term that leaves out the factor
ingredientTermPlain(recipe, prof) ==
    IF Has(recipe, "ingredients")
    THEN QInt(MapSum(prof.ingredients, recipe.ingredients))
    ELSE QZero

ingredientTerm(recipe, prof) ==
    IF Has(recipe, "ingredients")
    THEN QInt(MapSum(prof.ingredients, recipe.ingredients) * IngredientFactor)
    ELSE QZero

cuisineTerm(recipe, prof) ==
    IF Has(recipe, "cuisine") /\ recipe.cuisine # "" /\ recipe.cuisine \in DOMAIN prof.cuisines
    THEN QMul(QInt(prof.cuisines[recipe.cuisine]), CuisineFactor)
    ELSE QZero

difficultyTerm(recipe, prof) ==
    IF /\ Has(recipe, "difficulty") /\ recipe.difficulty # ""
       /\ recipe.difficulty \in DOMAIN prof.difficulties
    THEN QMul(QInt(prof.difficulties[recipe.difficulty]), DifficultyFactor)
    ELSE QZero

tagTerm(recipe, prof) ==
    IF Has(recipe, "tags")
    THEN QMul(QInt(MapSum(prof.tags, recipe.tags)), TagFactor)
    ELSE QZero

\* diff / range where range is an extended number (x / +-Infinity is 0)
DivByExt(q, e) == IF e.inf # 0 THEN QZero ELSE QDiv(q, e.q)

\* range || 1
OrOne(e) == IF e.inf = 0 /\ e.q.n = 0 THEN Fin(QInt(1)) ELSE e

\* a guard that does not look at the profile's average
fieldGuardNoAvg(copy, f, recipe, prof) ==
    /\ Has(recipe, "nutrition")
    /\ Has(recipe.nutrition, f)
    /\ (copy = "route" => recipe.nutrition[f] # 0)

\* the guard in front of a field's term:
\*   route copy:  calories && profile...avg > 0
\*   typed copy:  calories !== undefined && profile...avg > 0
fieldGuard(copy, f, recipe, prof) ==
    /\ Has(recipe, "nutrition")
    /\ Has(recipe.nutrition, f)
    /\ (copy = "route" => recipe.nutrition[f] # 0)
    /\ prof.nutritionRanges[f].avg.n > 0

fieldDiff(f, recipe, prof) ==
    QAbs(QSub(QInt(recipe.nutrition[f]), prof.nutritionRanges[f].avg))

fieldRange(f, prof) ==
    ExtSub(prof.nutritionRanges[f].max, prof.nutritionRanges[f].min)

\* whether the `score +=` statement of field f is reached:
\*   route copy:  calories and protein only, inside `if (range > 0)`
\*   typed copy:  calories inside `if (calRange > 0)`, the other fields
\*                straight behind the guard
fieldScored(copy, f, recipe, prof) ==
    /\ fieldGuard(copy, f, recipe, prof)
    /\ IF copy = "route"
       THEN f \in {"calories", "protein"} /\ ExtPositive(fieldRange(f, prof))
       ELSE f = "calories" => ExtPositive(fieldRange(f, prof))

\* what diff is divided by: range, or (range || 1) for protein, carbs and fat
\* of the typed copy
fieldDivisor(copy, f, prof) ==
    IF copy = "typed" /\ f # "calories" THEN OrOne(fieldRange(f, prof))
    ELSE fieldRange(f, prof)

\* what the nutrition block adds to the score for field f
nutritionTerm(copy, f, recipe, prof) ==
    IF ~fieldScored(copy, f, recipe, prof) THEN QZero
    ELSE LET ratio == DivByExt(fieldDiff(f, recipe, prof), fieldDivisor(copy, f, prof))
         IN IF copy = "route"
            THEN \* score += Math.max(0, 5 - (calDiff / calRange) * 5), 3 for protein
                 LET k == IF f = "calories" THEN CalorieScale ELSE ProteinScale
                 IN QMax(QZero, QSub(QInt(k), QMul(ratio, QInt(k))))
            ELSE \* score += (1 - diff / range) * 0.5
                 QMul(QSub(QInt(1), ratio), HalfFactor)

\* if (avgRating && ratingsCount) score += (avgRating / 5) * Math.log(ratingsCount + 1) * 0.5
popularityTerm(recipe) ==
    IF /\ Has(recipe, "avgRating") /\ recipe.avgRating.n # 0
       /\ Has(recipe, "ratingsCount") /\ recipe.ratingsCount # 0
    THEN QMul(QMul(QDiv(recipe.avgRating, QInt(RatingScale)),
                   MathLog(recipe.ratingsCount + 1)), HalfFactor)
    ELSE QZero

RECURSIVE QSum(_)
QSum(s) == IF s = <<>> THEN QZero ELSE QAdd(Head(s), QSum(Tail(s)))

nutritionScore(copy, recipe, prof) ==
    QSum([i \in DOMAIN NutritionFields |-> nutritionTerm(copy, NutritionFields[i], recipe, prof)])

calculateRecipeScore(copy, recipe, prof) ==
    QSum(<<ingredientTerm(recipe, prof),
           cuisineTerm(recipe, prof),
           difficultyTerm(recipe, prof),
           tagTerm(recipe, prof),
           nutritionScore(copy, recipe, prof),
           popularityTerm(recipe)>>)

---------------------------------------------------------------------------
(* Recommendation route: getRecommendations and GET *)

DefaultLimit == 12

\* ?limit= as the handler receives it: <<>> when the parameter is absent (or
\* empty), <<n>> when it is the decimal text of n
LimitParams == {<<>>} \cup {<<n>> : n \in -1..MaxLimit}

\* const limit = Number(req.nextUrl.searchParams.get('limit') || 12)
parseLimit(param) == IF param = <<>> THEN DefaultLimit ELSE param[1]

\* cursor.limit(n) of the MongoDB driver: 0 is "no limit", a negative n
\* is a limit of -n
cursorLimit(docs, n) ==
    IF n = 0 THEN docs ELSE Take(docs, IF n < 0 THEN -n ELSE n)

\* Array.prototype.slice(0, end): a negative end counts from the end
slice(arr, end) == IF end < 0 THEN Take(arr, Len(arr) + end) ELSE Take(arr, end)

\* sort keys of the cold-start query; a missing field sorts as null, below
\* every number
avgRatingKey(doc)    == IF Has(doc, "avgRating") THEN Fin(doc.avgRating) ELSE NegInfinity
ratingsCountKey(doc) == IF Has(doc, "ratingsCount") THEN Fin(QInt(doc.ratingsCount))
                        ELSE NegInfinity

ExtLt(a, b) == \/ a.inf < b.inf
               \/ a.inf = 0 /\ b.inf = 0 /\ QLt(a.q, b.q)
ExtEq(a, b) == a.inf = b.inf /\ (a.inf = 0 => QEq(a.q, b.q))

\* a comes strictly before b under .sort({avgRating: -1, ratingsCount: -1})
trendingBefore(a, b) ==
    \/ ExtLt(avgRatingKey(b), avgRatingKey(a))
    \/ /\ ExtEq(avgRatingKey(a), avgRatingKey(b))
       /\ ExtLt(ratingsCountKey(b), ratingsCountKey(a))

\* the orders in which the server may return docs for that sort: documents
\* with equal keys come in any order
trendingOrders(docs) ==
    {s \in {Permuted(docs, p) : p \in Perms(docs)} :
        \A i, j \in DOMAIN s : i < j => ~trendingBefore(s[j], s[i])}

\* Recipe.find({_id: {$in: ids}}) / {$nin: ids}: natural order, ids cast to ObjectId
findIn(coll, ids)    == SelectSeq(coll, LAMBDA d : String(d._id) \in ids)
\* a find that hands the documents over back to front on every other request
findNotInTurning(coll, ids) ==
    LET found == SelectSeq(coll, LAMBDA d : String(d._id) \notin ids)
    IN IF ops % 2 = 0 THEN found
       ELSE [i \in DOMAIN found |-> found[Len(found) + 1 - i]]

\* a find that ignores its filter
findAny(coll, ids)   == coll
findNotIn(coll, ids) == SelectSeq(coll, LAMBDA d : String(d._id) \notin ids)

\* Array.prototype.sort((a, b) => b.score - a.score): stable, descending
\* an insertion that keeps the arrival order
insertLast(sorted, item) == Append(sorted, item)

RECURSIVE insertByScore(_, _)
insertByScore(sorted, item) ==
    IF sorted = <<>> THEN <<item>>
    ELSE IF QLt(Head(sorted).score, item.score) THEN <<item>> \o sorted
    ELSE <<Head(sorted)>> \o insertByScore(Tail(sorted), item)

RECURSIVE sortFrom(_, _)
sortFrom(sorted, rest) ==
    IF rest = <<>> THEN sorted
    ELSE sortFrom(insertByScore(sorted, Head(rest)), Tail(rest))

sortByScore(items) == sortFrom(<<>>, items)

\* the ids the user has interacted with
interactedRecipeIds(ratingDocs, favoriteDocs) ==
    {String(r.recipeId) : r \in Range(ratingDocs)}
        \cup {String(f.recipeId) : f \in Range(favoriteDocs)}

\* a branch that answers with the stored recipes instead of the ranked candidates
scoredBranchTrending(copy, ratingDocs, interacted, limit) ==
    [branch     |-> "scored",
     recipes    |-> cursorLimit(recipes, limit),
     scores     |-> <<>>,
     candidates |-> Len(findNotIn(recipes, interacted)),
     profile    |-> EmptyProfile]

\* the scored branch of getRecommendations
scoredBranch(copy, ratingDocs, interacted, limit) ==
    LET preferredRecipes  == findIn(recipes, interacted)
        preferenceProfile == buildPreferenceProfile(copy, preferredRecipes, ratingDocs)
        candidateRecipes  == findNotIn(recipes, interacted)
        scoredRecipes     == [i \in DOMAIN candidateRecipes |->
                                [recipe |-> candidateRecipes[i],
                                 score  |-> calculateRecipeScore(copy, candidateRecipes[i],
                                                                 preferenceProfile)]]
        top == slice(sortByScore(scoredRecipes), limit)
    IN [branch     |-> "scored",
        recipes    |-> [i \in DOMAIN top |-> top[i].recipe],
        scores     |-> [i \in DOMAIN top |-> top[i].score],
        candidates |-> Len(candidateRecipes),
        profile    |-> preferenceProfile]

\* the cold-start branch, for one order the server may answer in
coldBranch(order, limit) ==
    [branch     |-> "cold",
     recipes    |-> cursorLimit(order, limit),
     scores     |-> <<>>,
     candidates |-> Len(order),
     profile    |-> EmptyProfile]

\* a request that answers with the trending list and stores its first entry
\* as a Favorite of the user
GetRecommendationsSaving(copy, userId, param) ==
    /\ ops < MaxOps
    /\ phase = "off"
    /\ ops' = ops + 1
    /\ \E order \in trendingOrders(recipes) :
          /\ response' = [userId |-> userId, limit |-> parseLimit(param), copy |-> copy]
                             @@ coldBranch(order, parseLimit(param))
          /\ favorites' = IF order = <<>> THEN favorites
                          ELSE findOneAndUpdate(favorites, userId, String(order[1]._id),
                                                [userId |-> userId])
    /\ UNCHANGED <<recipes, ratings, nextId, posts>>
    /\ UNCHANGED scoreVars

\* GET /api/recommendations served by one copy of the route
GetRecommendations(copy, userId, param) ==
    LET limit         == parseLimit(param)
        ratingDocs    == findByUser(ratings, userId)
        favoriteDocs  == findByUser(favorites, userId)
        interacted    == interactedRecipeIds(ratingDocs, favoriteDocs)
    IN /\ ops < MaxOps
       /\ phase = "off"
       /\ ops' = ops + 1
       /\ IF interacted = {}
          THEN \E order \in trendingOrders(recipes) :
                  response' = [userId |-> userId, limit |-> limit, copy |-> copy]
                                  @@ coldBranch(order, limit)
          ELSE response' = [userId |-> userId, limit |-> limit, copy |-> copy]
                               @@ scoredBranch(copy, ratingDocs, interacted, limit)
       /\ UNCHANGED <<recipes, ratings, favorites, nextId, posts>>
       /\ UNCHANGED scoreVars

---------------------------------------------------------------------------
(* Ratings route: POST /api/ratings *)

JsNumber(n) == [type |-> "number", value |-> n]
JsString(n) == [type |-> "string", value |-> n]

\* request bodies of POST /api/ratings carrying the given rating values;
\* recipeId may be missing
RatingBodies(values) ==
    {[recipeId |-> id, rating |-> r] : id \in RecipeIdStrings, r \in values}
        \cup {[rating |-> JsNumber(4)]}

\* the bodies sent when requests are served one at a time
SerialBodies == RatingBodies({JsNumber(2), JsNumber(4), JsString(4)})

\* the bodies sent when requests overlap
RacingBodies == RatingBodies({JsNumber(2), JsNumber(7), JsString(4)})

\* if (!recipeId || typeof rating !== 'number') return 400
ratingBodyValid(body) == Has(body, "recipeId") /\ body.rating.type = "number"

\* if (agg[0]) await Recipe.findByIdAndUpdate(recipeId, {$set: {avgRating, ratingsCount}})
updateAggregate(coll, recipeId, agg) ==
    IF agg # <<>>
    THEN findByIdAndUpdate(coll, recipeId,
                           [avgRating |-> agg[1].avg, ratingsCount |-> agg[1].count])
    ELSE coll

\* POST /api/ratings with no other request in between its awaits
PostRating(userId, body) ==
    /\ ops < MaxOps
    /\ phase = "off"
    /\ posts = {}
    /\ IF ~ratingBodyValid(body)
       THEN UNCHANGED <<ratings, recipes, ops, response>>
       ELSE /\ ratings' = findOneAndUpdate(ratings, userId, body.recipeId,
                                           [rating |-> body.rating.value])
            /\ recipes' = updateAggregate(recipes, body.recipeId,
                                          aggregate(ratings', body.recipeId))
            /\ ops' = ops + 1
            /\ response' = [branch |-> "none"]
    /\ UNCHANGED <<favorites, nextId, posts>>
    /\ UNCHANGED scoreVars

\* The same handler one await at a time, for requests that overlap.
\* POST up to and including await Rating.findOneAndUpdate(...)
PostRatingUpsert(userId, body) ==
    /\ ops < MaxOps
    /\ phase = "off"
    /\ IF ~ratingBodyValid(body)
       THEN UNCHANGED <<ratings, posts, ops>>
       ELSE /\ Cardinality(posts) < MaxInflight
            /\ ops' = ops + 1
            /\ ratings' = findOneAndUpdate(ratings, userId, body.recipeId,
                                           [rating |-> body.rating.value])
            /\ posts' = posts \cup {[id |-> ops + 1, userId |-> userId,
                                     recipeId |-> body.recipeId,
                                     rating |-> body.rating.value,
                                     pc |-> "aggregate", agg |-> <<>>]}
    /\ UNCHANGED <<recipes, favorites, nextId, response>>
    /\ UNCHANGED scoreVars

\* await Rating.aggregate([...])
PostRatingAggregate(p) ==
    /\ p.pc = "aggregate"
    /\ posts' = (posts \ {p}) \cup
                   {[p EXCEPT !.pc = "update", !.agg = aggregate(ratings, p.recipeId)]}
    /\ UNCHANGED <<recipes, ratings, favorites, nextId, response, ops>>
    /\ UNCHANGED scoreVars

\* if (agg[0]) await Recipe.findByIdAndUpdate(...); return { ok: true }
PostRatingFinish(p) ==
    /\ p.pc = "update"
    /\ recipes' = updateAggregate(recipes, p.recipeId, p.agg)
    /\ posts' = posts \ {p}
    /\ UNCHANGED <<ratings, favorites, nextId, response, ops>>
    /\ UNCHANGED scoreVars

---------------------------------------------------------------------------
(* Favorites route: POST and DELETE /api/favorites *)

FavoriteBodies == {[recipeId |-> id] : id \in RecipeIdStrings} \cup {<<>>}

PostFavorite(userId, body) ==
    /\ ops < MaxOps
    /\ phase = "off"
    /\ IF ~Has(body, "recipeId")
       THEN UNCHANGED <<favorites, ops, response>>
       ELSE /\ favorites' = findOneAndUpdate(favorites, userId, body.recipeId,
                                [userId |-> userId, recipeId |-> CastObjectId(body.recipeId)])
            /\ ops' = ops + 1
            /\ response' = [branch |-> "none"]
    /\ UNCHANGED <<recipes, ratings, nextId, posts>>
    /\ UNCHANGED scoreVars

DeleteFavorite(userId, body) ==
    /\ ops < MaxOps
    /\ phase = "off"
    /\ IF ~Has(body, "recipeId")
       THEN UNCHANGED <<favorites, ops, response>>
       ELSE /\ favorites' = deleteOne(favorites, userId, body.recipeId)
            /\ ops' = ops + 1
            /\ response' = [branch |-> "none"]
    /\ UNCHANGED <<recipes, ratings, nextId, posts>>
    /\ UNCHANGED scoreVars

---------------------------------------------------------------------------
(* Recipes route: POST /api/recipes *)

PostRecipe(body) ==
    /\ ops < MaxOps
    /\ phase = "off"
    /\ IF ~Has(body, "name")
       THEN UNCHANGED <<recipes, nextId, ops, response>>
       ELSE /\ nextId < MaxRecipes
            /\ recipes' = Append(recipes, RecipeSchema(body, nextId + 1))
            /\ nextId' = nextId + 1
            /\ ops' = ops + 1
            /\ response' = [branch |-> "none"]
    /\ UNCHANGED <<ratings, favorites, posts>>
    /\ UNCHANGED scoreVars

\* Recipe.findByIdAndDelete(id): removes the document with that _id, if any
findByIdAndDelete(coll, id) == SelectSeq(coll, LAMBDA d : d._id # CastObjectId(id))

\* ?id= and ?all= of DELETE /api/recipes: <<>> when the parameter is absent
DeleteParams ==
    {[id |-> i, all |-> a] : i \in {<<>>} \cup {<<x>> : x \in RecipeIdStrings},
                             a \in {<<>>, <<"true">>}}

\* DELETE /api/recipes: touches the Recipe collection only
DeleteRecipe(param) ==
    /\ ops < MaxOps
    /\ phase = "off"
    /\ IF param.id = <<>> /\ param.all # <<"true">>
       THEN UNCHANGED <<recipes, ops, response>>
       ELSE /\ recipes' = IF param.all = <<"true">> THEN <<>>
                          ELSE findByIdAndDelete(recipes, param.id[1])
            /\ ops' = ops + 1
            /\ response' = [branch |-> "none"]
    /\ UNCHANGED <<ratings, favorites, nextId, posts>>
    /\ UNCHANGED scoreVars

---------------------------------------------------------------------------
(* Recipes route: GET /api/recipes, one step per await *)

\* SEED_RECIPES holds one recipe
SeedBody ==
    [name |-> "Margherita Pizza", ingredients |-> <<"Pizza dough", "Mozzarella">>,
     cuisine |-> "Italian", difficulty |-> "Medium", tags |-> <<"Vegetarian">>,
     nutrition |-> [calories |-> 280, protein |-> 12, carbs |-> 36, fat |-> 9]]

\* Recipe.insertMany(SEED_RECIPES)
insertSeeds(coll, hex) == Append(coll, RecipeSchema(SeedBody, hex))

\* const count = await Recipe.estimatedDocumentCount()
RecipesGetCount ==
    /\ ops < MaxOps
    /\ phase = "off"
    /\ Cardinality(seeding) < MaxInflight
    /\ seeding' = seeding \cup {[id |-> ops + 1, pc |-> "counted", count |-> Len(recipes)]}
    /\ ops' = ops + 1
    /\ response' = [branch |-> "none"]
    /\ UNCHANGED <<recipes, ratings, favorites, nextId, posts>>
    /\ UNCHANGED harnessVars
    /\ UNCHANGED <<service, generation, conn, client, dialog>>

\* if (count === 0) await Recipe.insertMany(SEED_RECIPES)
RecipesGetSeed(p) ==
    /\ p.pc = "counted"
    /\ seeding' = (seeding \ {p}) \cup {[p EXCEPT !.pc = "seeded"]}
    /\ IF p.count = 0
       THEN /\ recipes' = insertSeeds(recipes, nextId + 1)
            /\ nextId' = nextId + 1
       ELSE UNCHANGED <<recipes, nextId>>
    /\ UNCHANGED <<ratings, favorites, posts, response, ops>>
    /\ UNCHANGED harnessVars
    /\ UNCHANGED <<service, generation, conn, client, dialog>>

\* const recipes = await Recipe.find({}).sort({ createdAt: -1 }).lean(); the answer
RecipesGetFind(p) ==
    /\ p.pc = "seeded"
    /\ seeding' = seeding \ {p}
    /\ UNCHANGED dbVars
    /\ UNCHANGED harnessVars
    /\ UNCHANGED <<service, generation, conn, client, dialog>>

---------------------------------------------------------------------------
(* The application *)

\* the Recipe collections that n successful POST /api/recipes leave behind,
\* the bodies sent in turn
SavedCollections ==
    LET named == {b \in Bodies : Has(b, "name")}
        turn(i) == CHOOSE b \in named : (b.name = "A") <=> (i % 2 = 1)
    IN {[i \in 1..n |-> RecipeSchema(turn(i), i)] : n \in 0..MaxRecipes}

\* the image recognition service of a process that never touches it
ServiceOff ==
    [copy |-> "services", model |-> FALSE, request |-> <<>>, answer |-> [kind |-> "notCalled"],
     result |-> [kind |-> "none"]]

\* the other parts of the application before anything has used them
GenerationOff == [request |-> <<>>, answer |-> [kind |-> "notCalled"], result |-> [kind |-> "none"]]
\* lib/mongodb: global.mongoose = { conn: null, promise: null }, no call made
ConnOff ==
    [cached   |-> [conn |-> 0, promise |-> [state |-> "none", value |-> 0]],
     connects |-> 0,
     calls    |-> [c \in 1..MaxCalls |-> [pc |-> "idle", value |-> 0, waited |-> FALSE, late |-> FALSE]]]
SeedingOff    == {}
\* RecipeDisplay as it mounts with one generated recipe
ClientOff ==
    [list |-> [type |-> "generated", hex |-> 1], selected |-> <<>>, savedIds |-> {},
     idMap |-> <<>>, favoriteIds |-> {}, clicks |-> 0]
\* the state ImageIngredientRecognition is constructed with
DialogState(copy, mounted) ==
    [copy |-> copy, mounted |-> mounted, isProcessing |-> FALSE, isCameraOpen |-> FALSE,
     selectedImage |-> 0, detectedIngredients |-> 0, error |-> "null",
     streams |-> <<>>, streamRef |-> 0,
     video |-> "none", tasks |-> {}, gestures |-> 0]

\* no recognition dialog is shown
DialogOff == DialogState("first", FALSE)

RestOff ==
    /\ generation = GenerationOff
    /\ conn = ConnOff
    /\ seeding = SeedingOff
    /\ client = ClientOff
    /\ dialog = DialogOff

\* the stored collections of a process that serves no request
DbEmpty ==
    /\ recipes = <<>>
    /\ nextId = 0
    /\ ratings = <<>>
    /\ favorites = <<>>
    /\ posts = {}
    /\ response = [branch |-> "none"]
    /\ ops = 0

\* the scorer harness of a process that serves requests
ScorerOff ==
    /\ phase = "off"
    /\ impl = "route"
    /\ preferred = <<>>
    /\ userRatings = <<>>
    /\ candidate = <<>>
    /\ profile = EmptyProfile
    /\ score = QZero

HarnessOff ==
    /\ ScorerOff
    /\ service = ServiceOff
    /\ RestOff

Init ==
    /\ recipes \in SavedCollections
    /\ nextId = Len(recipes)
    /\ ratings = <<>>
    /\ favorites = <<>>
    /\ posts = {}
    /\ response = [branch |-> "none"]
    /\ ops = 0
    /\ HarnessOff

\* requests served one at a time.  A recommendation request changes nothing
\* that a later one reads, so this specification asks for recommendations
\* once between two accepted writes; SpecRank repeats the request.
Next ==
    \/ \E u \in Users, b \in SerialBodies : PostRating(u, b)
    \/ \E u \in Users, b \in FavoriteBodies : PostFavorite(u, b)
    \/ \E u \in Users, b \in FavoriteBodies : DeleteFavorite(u, b)
    \/ \E b \in Bodies : PostRecipe(b)
    \/ /\ response.branch = "none"
       /\ \E c \in Copies, u \in Users, l \in LimitParams : GetRecommendations(c, u, l)

Spec == Init /\ [][Next]_vars

\* the requests that write, served one at a time
NextWrites ==
    \/ \E u \in Users, b \in SerialBodies : PostRating(u, b)
    \/ \E u \in Users, b \in FavoriteBodies : PostFavorite(u, b)
    \/ \E u \in Users, b \in FavoriteBodies : DeleteFavorite(u, b)
    \/ \E b \in Bodies : PostRecipe(b)

SpecWrites == Init /\ [][NextWrites]_vars

\* the requests that write and the requests that delete recipes
NextDeletes ==
    \/ NextWrites
    \/ \E param \in DeleteParams : DeleteRecipe(param)

SpecDeletes == Init /\ [][NextDeletes]_vars

\* GET /api/recipes requests that overlap, among posts and deletes of recipes
NextSeeding ==
    \/ RecipesGetCount
    \/ \E p \in seeding : RecipesGetSeed(p)
    \/ \E p \in seeding : RecipesGetFind(p)
    \/ \E b \in Bodies : PostRecipe(b)
    \/ \E param \in DeleteParams : DeleteRecipe(param)

SpecSeeding == Init /\ [][NextSeeding]_vars

\* rating requests that overlap: each await is a step
NextRatings ==
    \/ \E u \in Users, b \in RacingBodies : PostRatingUpsert(u, b)
    \/ \E p \in posts : PostRatingAggregate(p)
    \/ \E p \in posts : PostRatingFinish(p)

SpecRatings == Init /\ [][NextRatings]_vars

---------------------------------------------------------------------------
(* The profile builder and the scorer on their own: buildPreferenceProfile *)
(* and calculateRecipeScore applied to documents handed to them directly.  *)

\* recipe documents as .lean() / .exec() may hand them over
ScoreDocs == {
    [ingredients |-> <<"egg", "rice">>, cuisine |-> "Asian", difficulty |-> "Easy",
     tags |-> <<"quick">>,
     nutrition |-> [calories |-> 4, protein |-> 2, carbs |-> 3, fat |-> 1]],
    [ingredients |-> <<"egg", "egg">>, difficulty |-> "Hard", tags |-> <<"quick", "vegan">>,
     nutrition |-> [calories |-> 2, protein |-> 2, carbs |-> 0, fat |-> 1],
     avgRating |-> Q(4, 1), ratingsCount |-> 1],
    [ingredients |-> <<"rice">>, cuisine |-> "Asian", difficulty |-> "Hard",
     tags |-> <<"vegan">>],
    [tags |-> <<"vegan">>, nutrition |-> [calories |-> 4, protein |-> 4]],
    [ingredients |-> <<"rice">>, cuisine |-> "Thai", difficulty |-> "Easy", tags |-> <<>>,
     nutrition |-> [calories |-> 0, protein |-> 0, carbs |-> 0, fat |-> 0]]
}

\* 0 stands for "not rated" (the recipe is in the set through a Favorite)
HarnessRatings == {0, 1, 5}

WithId(doc, hex) == doc @@ [_id |-> ObjectId(hex)]

InitScore ==
    /\ recipes = <<>>
    /\ nextId = 0
    /\ ratings = <<>>
    /\ favorites = <<>>
    /\ posts = {}
    /\ response = [branch |-> "none"]
    /\ ops = 0
    /\ phase = "input"
    /\ impl \in Copies
    /\ \E n \in 0..MaxPreferred :
         \E docs \in [1..n -> ScoreDocs], given \in [1..n -> HarnessRatings] :
            /\ preferred = [i \in 1..n |-> WithId(docs[i], i)]
            /\ userRatings =
                 LET rated == SelectSeq([i \in 1..n |-> i], LAMBDA i : given[i] # 0)
                 IN [k \in DOMAIN rated |->
                        [userId |-> "u1", recipeId |-> ObjectId(rated[k]),
                         rating |-> given[rated[k]]]]
    /\ candidate \in {WithId(d, 0) : d \in ScoreDocs}
    /\ profile = EmptyProfile
    /\ score = QZero
    /\ service = ServiceOff
    /\ RestOff

BuildProfile ==
    /\ phase = "input"
    /\ phase' = "profiled"
    /\ profile' = buildPreferenceProfile(impl, preferred, userRatings)
    /\ UNCHANGED <<impl, preferred, userRatings, candidate, score, service>>
    /\ UNCHANGED restVars
    /\ UNCHANGED dbVars

ScoreCandidate ==
    /\ phase = "profiled"
    /\ phase' = "scored"
    /\ score' = calculateRecipeScore(impl, candidate, profile)
    /\ UNCHANGED <<impl, preferred, userRatings, candidate, profile, service>>
    /\ UNCHANGED restVars
    /\ UNCHANGED dbVars

NextScore == BuildProfile \/ ScoreCandidate

SpecScore == InitScore /\ [][NextScore]_vars

---------------------------------------------------------------------------
(* Recommendation requests against a stored history: the collections are   *)
(* those that POST /api/recipes, POST /api/ratings and POST /api/favorites *)
(* of user u1 leave behind, and only GET /api/recommendations runs.        *)

RankMarks == {"none", "rated", "favorited"}

\* the value u1 rated with
RankRating == 4

InitRank ==
    /\ \E n \in 0..MaxPool :
         \E bs \in [1..n -> {b \in Bodies : Has(b, "name")}], marks \in [1..n -> RankMarks] :
            /\ recipes = [i \in 1..n |-> RecipeSchema(bs[i], i)]
            /\ ratings =
                 LET ids == SelectSeq([i \in 1..n |-> i], LAMBDA i : marks[i] = "rated")
                 IN [k \in DOMAIN ids |->
                        [userId |-> "u1", recipeId |-> ObjectId(ids[k]),
                         rating |-> RankRating]]
            /\ favorites =
                 LET ids == SelectSeq([i \in 1..n |-> i], LAMBDA i : marks[i] = "favorited")
                 IN [k \in DOMAIN ids |->
                        [userId |-> "u1", recipeId |-> ObjectId(ids[k])]]
    /\ nextId = Len(recipes)
    /\ posts = {}
    /\ response = [branch |-> "none"]
    /\ ops = MaxOps - 2      \* the request and its repetition are still to come
    /\ HarnessOff

NextRank ==
    \E c \in Copies, l \in LimitParams : GetRecommendations(c, "u1", l)

SpecRank == InitRank /\ [][NextRank]_vars

---------------------------------------------------------------------------
(* ImageRecognitionService.recognizeIngredients, in its two copies:
   "services" is src/app/services/imageRecognitionService.ts and "part_000"
   is the copy built on getGenerativeModel.  Confidences are in percent. *)

ServiceCopies == {"services", "part_000"}

\* a DetectedIngredient
Ingredient(n, c, cat, q, u) == [name |-> n, confidence |-> c, category |-> cat, quantity |-> q, unit |-> u]

\* the elements Gemini's JSON array is made of: a full entry, an entry with
\* a padded name and nothing else, one with a confidence below the floor,
\* one without a name, and null
JsonNull == [null |-> TRUE]
JsonItems ==
    { [name |-> "Tomato", confidence |-> 95, category |-> "Vegetables", quantity |-> "2", unit |-> "pieces"],
      [name |-> " Okra "],
      [name |-> "Rice", confidence |-> 30],
      [confidence |-> 90],
      JsonNull }

\* what the await of the Gemini call ends with: a rejection, or a text that
\* holds no [...], one whose [...] is not JSON, or a JSON array
GeminiAnswers ==
    {[kind |-> "apiError"], [kind |-> "prose"], [kind |-> "brokenJson"]}
        \cup {[kind |-> "json", items |-> items] :
                items \in UNION {[1..n -> JsonItems] : n \in 0..MaxItems}}

\* request.maxResults: missing, 0 or 1
MaxResultsParams == {<<>>, <<0>>, <<1>>}

\* String.prototype.trim on the names of JsonItems
Trim(name) == IF name = " Okra " THEN "Okra" ELSE name

categorizeIngredient(copy, name) ==
    IF name = "Tomato" THEN "Vegetables"
    ELSE IF name = "Rice" THEN "Grains"
    ELSE IF name = " Okra " THEN (IF copy = "services" THEN "Vegetables" ELSE "Other")
    ELSE "Other"

\* Math.max(0.5, Math.min(1.0, ing.confidence || 0.8))
clampConfidence(ing) ==
    LET given == IF Has(ing, "confidence") /\ ing.confidence # 0 THEN ing.confidence ELSE 80
    IN Max(50, Min(100, given))

cleanIngredient(copy, ing) ==
    Ingredient(Trim(ing.name), clampConfidence(ing),
               IF Has(ing, "category") THEN ing.category ELSE categorizeIngredient(copy, ing.name),
               IF Has(ing, "quantity") THEN ing.quantity ELSE "1",
               IF Has(ing, "unit") THEN ing.unit ELSE "piece")

\* the stable sort by b.confidence - a.confidence
RECURSIVE insertByConfidence(_, _)
insertByConfidence(sorted, item) ==
    IF sorted = <<>> THEN <<item>>
    ELSE IF Head(sorted).confidence >= item.confidence
         THEN <<Head(sorted)>> \o insertByConfidence(Tail(sorted), item)
         ELSE <<item>> \o sorted

RECURSIVE sortByConfidence(_, _)
sortByConfidence(sorted, rest) ==
    IF rest = <<>> THEN sorted
    ELSE sortByConfidence(insertByConfidence(sorted, Head(rest)), Tail(rest))

fallbackIngredientDetection(copy) ==
    IF copy = "services" THEN <<>>
    ELSE << Ingredient("Tomato", 85, "Vegetables", "1", "piece"),
            Ingredient("Onion", 80, "Vegetables", "1", "piece"),
            Ingredient("Garlic", 75, "Vegetables", "2", "cloves") >>

\* the text parses when it holds a JSON array whose elements all allow the
\* read of .name; every other text ends in the catch
parseFails(text) ==
    \/ text.kind # "json"
    \/ \E i \in DOMAIN text.items : text.items[i] = JsonNull

parseGeminiResponse(copy, text) ==
    IF parseFails(text) THEN fallbackIngredientDetection(copy)
    ELSE LET named == SelectSeq(text.items, LAMBDA ing : Has(ing, "name"))
             clean == [i \in DOMAIN named |-> cleanIngredient(copy, named[i])]
         IN sortByConfidence(<<>>, clean)

simulateRecognition(copy) ==
    [kind |-> "result", modelVersion |-> "simulated-v1",
     ingredients |->
        IF copy = "services"
        THEN << Ingredient("Test Tomato", 95, "Vegetables", "1", "piece"),
                Ingredient("Test Onion", 87, "Vegetables", "1", "piece") >>
        ELSE << Ingredient("Tomato", 95, "Vegetables", "2", "pieces"),
                Ingredient("Onion", 87, "Vegetables", "1", "piece"),
                Ingredient("Garlic", 82, "Vegetables", "3", "cloves"),
                Ingredient("Bell Pepper", 78, "Vegetables", "1", "piece"),
                Ingredient("Mushroom", 73, "Vegetables", "8", "pieces") >>]

Thrown(message) == [kind |-> "error", message |-> message]

\* the branch of !this.model
notInitialized(copy) ==
    IF copy = "services" THEN simulateRecognition(copy)
    ELSE Thrown("Gemini service not initialized. Please provide API key.")

\* the catch around the Gemini call
callFailed(copy) ==
    IF copy = "services" THEN simulateRecognition(copy)
    ELSE Thrown("Failed to process image with Gemini. Please try again.")

\* request.maxResults || 50, or || 20
maxResultsOf(copy, request) ==
    IF request # <<>> /\ request[1] # 0 THEN request[1]
    ELSE IF copy = "services" THEN 50 ELSE 20

recognizeIngredients(copy, model, request, answer) ==
    IF ~model THEN notInitialized(copy)
    ELSE IF answer.kind = "apiError" THEN callFailed(copy)
    ELSE [kind |-> "result",
          modelVersion |-> IF copy = "services" THEN "gemini-2.5-flash-image-preview"
                           ELSE "gemini-1.5-flash",
          ingredients |-> Take(parseGeminiResponse(copy, answer), maxResultsOf(copy, request))]

\* initialize(apiKey): the model is set unless the client's constructor throws
Initialize(constructed) ==
    /\ service' = [service EXCEPT !.model = service.model \/ constructed]
    /\ UNCHANGED dbVars
    /\ UNCHANGED harnessVars
    /\ UNCHANGED restVars

RecognizeIngredients(request, answer) ==
    /\ service' = [service EXCEPT
                     !.request = request,
                     !.answer = IF service.model THEN answer ELSE [kind |-> "notCalled"],
                     !.result = recognizeIngredients(service.copy, service.model, request, answer)]
    /\ UNCHANGED dbVars
    /\ UNCHANGED harnessVars
    /\ UNCHANGED restVars

InitGemini ==
    /\ recipes = <<>>
    /\ nextId = 0
    /\ ratings = <<>>
    /\ favorites = <<>>
    /\ posts = {}
    /\ response = [branch |-> "none"]
    /\ ops = 0
    /\ phase = "off"
    /\ impl = "route"
    /\ preferred = <<>>
    /\ userRatings = <<>>
    /\ candidate = <<>>
    /\ profile = EmptyProfile
    /\ score = QZero
    /\ \E copy \in ServiceCopies : service = [ServiceOff EXCEPT !.copy = copy]
    /\ RestOff

NextGemini ==
    \/ \E constructed \in BOOLEAN : Initialize(constructed)
    \/ \E request \in MaxResultsParams, answer \in GeminiAnswers : RecognizeIngredients(request, answer)

SpecGemini == InitGemini /\ [][NextGemini]_vars

---------------------------------------------------------------------------
(* RecipeGenerationService.generateRecipes.  What the awaited callGeminiAPI
   ends with is an input: its declared result is GeminiResponse | string and
   it may reject. *)

\* request.ingredients: none, one, two or three ingredients
RequestIngredients ==
    { <<>>, <<[name |-> "egg"]>>, <<[name |-> "egg"], [name |-> "rice"]>>,
      <<[name |-> "egg"], [name |-> "rice"], [name |-> "okra"]>> }

\* request.numRecipes: missing, or a number
NumRecipesParams == {<<>>, <<-1>>, <<0>>, <<1>>, <<2>>}

GenerationRequests ==
    {[ingredients |-> ings, numRecipes |-> num, servings |-> 2] :
        ings \in RequestIngredients, num \in NumRecipesParams}

\* a JSON array and a JSON text as the value of a field
JsArray(items) == [array |-> items]
JsText(chars)  == [text |-> chars]

\* the elements of response.recipes: a recipe, an empty object, a recipe
\* whose ingredients are a text, one whose ingredients hold null, and null
RecipeItems ==
    { [name |-> "Curry", ingredients |-> JsArray(<<[name |-> "egg", quantity |-> "1"]>>), servings |-> 4],
      [description |-> ""],
      [name |-> "Soup", ingredients |-> JsText("egg")],
      [name |-> "Bake", ingredients |-> JsArray(<<JsonNull>>)],
      JsonNull }

\* the parsed answers: null, an object without recipes, one whose recipes
\* are not an array, and one with an array of up to MaxItems elements
GeminiValues ==
    {JsonNull, [error |-> "quota"], [recipes |-> JsText("none")]}
        \cup {[recipes |-> JsArray(items)] :
                items \in UNION {[1..n -> RecipeItems] : n \in 0..MaxItems}}

\* what the await ends with: a rejection, a text that is not JSON, the text
\* of a value, or the value
GenerationAnswers ==
    {[kind |-> "throws"], [kind |-> "text"]}
        \cup {[kind |-> k, value |-> v] : k \in {"json", "value"}, v \in GeminiValues}

\* the styles Math.random picks from
Bases == {"Soup", "Salad"}

\* Array.isArray(response.recipes) ? response.recipes : []
recipeList(parsed) ==
    IF Has(parsed, "recipes") /\ Has(parsed.recipes, "array") THEN parsed.recipes.array ELSE <<>>

\* the reads that throw a TypeError inside list.map
itemThrows(item) ==
    \/ item = JsonNull
    \/ /\ Has(item, "ingredients")
       /\ \/ ~Has(item.ingredients, "array")
          \/ \E i \in DOMAIN item.ingredients.array : item.ingredients.array[i] = JsonNull

processedRecipe(item, index, request) ==
    [id          |-> <<"recipe", index>>,
     name        |-> IF Has(item, "name") THEN item.name ELSE <<"Recipe", index + 1>>,
     ingredients |-> IF Has(item, "ingredients")
                     THEN [i \in DOMAIN item.ingredients.array |->
                             [name |-> item.ingredients.array[i].name, category |-> "Other"]]
                     ELSE <<>>,
     servings    |-> IF Has(item, "servings") THEN item.servings ELSE request.servings]

\* whether processGeminiResponse throws
processThrows(parsed) ==
    \/ parsed = JsonNull
    \/ recipeList(parsed) = <<>>
    \/ \E i \in DOMAIN recipeList(parsed) : itemThrows(recipeList(parsed)[i])

processGeminiResponse(parsed, request) ==
    LET list == recipeList(parsed)
    IN [i \in DOMAIN list |-> processedRecipe(list[i], i - 1, request)]

\* request.numRecipes ?? 3, as the length Array.from({ length: num }) makes of it
fallbackCount(request) ==
    IF request.numRecipes = <<>> THEN 3 ELSE Max(0, request.numRecipes[1])

generateFallbackRecipes(request, picks) ==
    LET names == [i \in DOMAIN request.ingredients |-> request.ingredients[i].name]
        main(idx) == IF names = <<>> THEN "Mixed Veggies"
                     ELSE names[(idx % Max(1, Len(names))) + 1]
        used == Take(request.ingredients, Max(2, Min(6, Len(request.ingredients))))
    IN [i \in 1..fallbackCount(request) |->
          [id          |-> <<"fallback", i - 1>>,
           name        |-> <<main(i - 1), picks[i]>>,
           ingredients |-> used,
           servings    |-> request.servings]]

GenerationResponse(recipeDocs) ==
    [kind |-> "result", recipes |-> recipeDocs, totalGenerated |-> Len(recipeDocs)]

\* a catch block that hands the error on
catchRethrow(request, picks) == [kind |-> "error", message |-> "Failed to generate recipes"]

\* the catch block of generateRecipes
catchFallback(request, picks) == GenerationResponse(generateFallbackRecipes(request, picks))

\* whether the try block of generateRecipes ends in the catch block
tryThrows(answer) ==
    \/ answer.kind \in {"throws", "text"}
    \/ processThrows(answer.value)

generateRecipes(request, answer, picks) ==
    IF tryThrows(answer) THEN catchFallback(request, picks)
    ELSE GenerationResponse(processGeminiResponse(answer.value, request))

GenerateRecipes(request, answer, picks) ==
    /\ generation' = [request |-> request, answer |-> answer,
                      result |-> generateRecipes(request, answer, picks)]
    /\ UNCHANGED dbVars
    /\ UNCHANGED harnessVars
    /\ UNCHANGED <<service, conn, seeding, client, dialog>>

InitGeneration ==
    /\ DbEmpty
    /\ ScorerOff
    /\ service = ServiceOff
    /\ generation = GenerationOff
    /\ conn = ConnOff
    /\ seeding = SeedingOff
    /\ client = ClientOff
    /\ dialog = DialogOff

\* generateRecipes reads no field of the service: one call shows all it does
NextGeneration ==
    /\ generation = GenerationOff
    /\ \E request \in GenerationRequests, answer \in GenerationAnswers :
          \E picks \in [1..fallbackCount(request) -> Bases] :
              GenerateRecipes(request, answer, picks)

SpecGeneration == InitGeneration /\ [][NextGeneration]_vars

---------------------------------------------------------------------------
(* lib/mongodb: dbConnect.  A connection is named by the number of the
   mongoose.connect invocation that made it; 0 is null.  A call runs up to
   its await in one step and resumes in a later one; it records whether it
   awaited the promise and whether the promise was rejected when it did. *)

\* a check that finds no promise whatever is cached
needsConnectAlways(cached) == TRUE

\* if (!cached.promise)
needsConnect(cached) == cached.promise.state = "none"

\* dbConnect up to `await cached.promise`
DbConnectEnter(c) ==
    /\ conn.calls[c].pc = "idle"
    /\ IF conn.cached.conn # 0
       THEN conn' = [conn EXCEPT !.calls[c] = [pc |-> "returned", value |-> conn.cached.conn,
                                               waited |-> FALSE, late |-> FALSE]]
       ELSE LET wasRejected == conn.cached.promise.state = "rejected"
            IN IF needsConnect(conn.cached)
               THEN conn' = [conn EXCEPT
                               !.connects = @ + 1,
                               !.cached.promise = [state |-> "pending", value |-> conn.connects + 1],
                               !.calls[c] = [pc |-> "awaiting", value |-> 0, waited |-> TRUE,
                                             late |-> FALSE]]
               ELSE conn' = [conn EXCEPT
                               !.calls[c] = [pc |-> "awaiting", value |-> 0, waited |-> TRUE,
                                             late |-> wasRejected]]
    /\ UNCHANGED dbVars
    /\ UNCHANGED harnessVars
    /\ UNCHANGED <<service, generation, seeding, client, dialog>>

\* mongoose.connect(...) ends: the promise resolves with the connection or rejects
ConnectSettles(ok) ==
    /\ conn.cached.promise.state = "pending"
    /\ conn' = [conn EXCEPT !.cached.promise.state = IF ok THEN "resolved" ELSE "rejected"]
    /\ UNCHANGED dbVars
    /\ UNCHANGED harnessVars
    /\ UNCHANGED <<service, generation, seeding, client, dialog>>

\* cached.conn = await cached.promise; return cached.conn
DbConnectResume(c) ==
    /\ conn.calls[c].pc = "awaiting"
    /\ conn.cached.promise.state \in {"resolved", "rejected"}
    /\ IF conn.cached.promise.state = "resolved"
       THEN conn' = [conn EXCEPT
                       !.cached.conn = conn.cached.promise.value,
                       !.calls[c].pc = "returned",
                       !.calls[c].value = conn.cached.promise.value]
       ELSE conn' = [conn EXCEPT !.calls[c].pc = "failed"]
    /\ UNCHANGED dbVars
    /\ UNCHANGED harnessVars
    /\ UNCHANGED <<service, generation, seeding, client, dialog>>

InitConn ==
    /\ DbEmpty
    /\ ScorerOff
    /\ service = ServiceOff
    /\ generation = GenerationOff
    /\ conn = ConnOff
    /\ seeding = SeedingOff
    /\ client = ClientOff
    /\ dialog = DialogOff

NextConn ==
    \/ \E c \in 1..MaxCalls : DbConnectEnter(c)
    \/ \E ok \in BOOLEAN : ConnectSettles(ok)
    \/ \E c \in 1..MaxCalls : DbConnectResume(c)

SpecConn == InitConn /\ [][NextConn]_vars

---------------------------------------------------------------------------
(* RecipeDisplay: the recipe page with one generated recipe, whose id is
   not a database id.  client.list is the id the recipe has in `list`,
   client.selected the id of the object held in selectedRecipe, client.idMap
   the entry of clientToServerIdMap for the recipe.  A click runs its
   handler to the end. *)

\* /^[0-9a-fA-F]{24}$/.test(id)
isMongoId(id) == id.type = "string"

\* denormalizeForApi(recipe) of the generated recipe
GeneratedBody ==
    [name |-> "Egg Soup", ingredients |-> <<"egg">>, cuisine |-> "Custom",
     difficulty |-> "Easy", tags |-> <<"quick">>,
     nutrition |-> [calories |-> 3, protein |-> 1, carbs |-> 2, fat |-> 1]]

\* the stars the user clicks
ClickedRatings == {2, 4}

\* the places a control is clicked in
Views == {"list", "detail"}

\* the recipe object the control of a view is bound to
boundId(view) == IF view = "list" THEN client.list ELSE client.selected[1]

\* saveRecipe(recipe): POST /api/recipes creates a document whatever is stored
savedCollection(coll) == Append(coll, RecipeSchema(GeneratedBody, nextId + 1))

\* ensureRecipeHasDbId saves the recipe unless its id looks like a database id
mustSave(id) == ~isMongoId(id)

\* the serverId ensureRecipeHasDbId returns
serverIdOf(id) == IF mustSave(id) THEN Str(nextId + 1) ELSE id

\* the Recipe collection after ensureRecipeHasDbId
ensuredCollection(id) == IF mustSave(id) THEN savedCollection(recipes) ELSE recipes

\* setClientToServerIdMap and setList of ensureRecipeHasDbId
ensuredClient(id) ==
    IF mustSave(id)
    THEN [client EXCEPT !.idMap = <<serverIdOf(id)>>,
                        !.list = IF client.list = id THEN serverIdOf(id) ELSE client.list,
                        !.clicks = @ + 1]
    ELSE [client EXCEPT !.clicks = @ + 1]

ClientIdle(view) ==
    /\ client.clicks < MaxClicks
    /\ phase = "off"
    /\ view = "detail" => client.selected # <<>>

\* onClick of a card, and of its View button: setSelectedRecipe(recipe)
ViewRecipe ==
    /\ client.clicks < MaxClicks
    /\ phase = "off"
    /\ client.selected = <<>>
    /\ client' = [client EXCEPT !.selected = <<client.list>>, !.clicks = @ + 1]
    /\ UNCHANGED dbVars
    /\ UNCHANGED harnessVars
    /\ UNCHANGED <<service, generation, conn, seeding, dialog>>

\* the back button: setSelectedRecipe(null)
BackToList ==
    /\ client.clicks < MaxClicks
    /\ phase = "off"
    /\ client.selected # <<>>
    /\ client' = [client EXCEPT !.selected = <<>>, !.clicks = @ + 1]
    /\ UNCHANGED dbVars
    /\ UNCHANGED harnessVars
    /\ UNCHANGED <<service, generation, conn, seeding, dialog>>

\* handleRatingChange, and the onChange of the stars of the detail view
RateRecipe(view, stars) ==
    /\ ClientIdle(view)
    /\ LET id == boundId(view)
       IN /\ client' = ensuredClient(id)
          /\ nextId' = IF mustSave(id) THEN nextId + 1 ELSE nextId
          /\ ratings' = findOneAndUpdate(ratings, "u1", serverIdOf(id), [rating |-> stars])
          /\ recipes' = updateAggregate(ensuredCollection(id), serverIdOf(id),
                                        aggregate(ratings', serverIdOf(id)))
    /\ UNCHANGED <<favorites, posts, response, ops>>
    /\ UNCHANGED harnessVars
    /\ UNCHANGED <<service, generation, conn, seeding, dialog>>

\* onClick of the heart of a card
ToggleFavorite ==
    /\ ClientIdle("list")
    /\ LET id == boundId("list")
           serverId == serverIdOf(id)
       IN /\ nextId' = IF mustSave(id) THEN nextId + 1 ELSE nextId
          /\ recipes' = ensuredCollection(id)
          /\ IF serverId \in client.favoriteIds
             THEN /\ favorites' = deleteOne(favorites, "u1", serverId)
                  /\ client' = [ensuredClient(id) EXCEPT !.favoriteIds = @ \ {serverId}]
             ELSE /\ favorites' = findOneAndUpdate(favorites, "u1", serverId,
                                     [userId |-> "u1", recipeId |-> CastObjectId(serverId)])
                  /\ client' = [ensuredClient(id) EXCEPT !.favoriteIds = @ \cup {serverId}]
    /\ UNCHANGED <<ratings, posts, response, ops>>
    /\ UNCHANGED harnessVars
    /\ UNCHANGED <<service, generation, conn, seeding, dialog>>

\* onClick of the Save button of a card and of the detail view; the button
\* takes no click while savedIds holds the id of its recipe
SaveRecipe(view) ==
    /\ ClientIdle(view)
    /\ boundId(view) \notin client.savedIds
    /\ recipes' = savedCollection(recipes)
    /\ nextId' = nextId + 1
    /\ client' = [client EXCEPT !.savedIds = @ \cup {boundId(view)}, !.clicks = @ + 1]
    /\ UNCHANGED <<ratings, favorites, posts, response, ops>>
    /\ UNCHANGED harnessVars
    /\ UNCHANGED <<service, generation, conn, seeding, dialog>>

InitClient ==
    /\ DbEmpty
    /\ ScorerOff
    /\ service = ServiceOff
    /\ generation = GenerationOff
    /\ conn = ConnOff
    /\ seeding = SeedingOff
    /\ client = ClientOff
    /\ dialog = DialogOff

NextClient ==
    \/ ViewRecipe
    \/ BackToList
    \/ \E view \in Views, stars \in ClickedRatings : RateRecipe(view, stars)
    \/ ToggleFavorite
    \/ \E view \in Views : SaveRecipe(view)

SpecClient == InitClient /\ [][NextClient]_vars

---------------------------------------------------------------------------
(* ImageIngredientRecognition: the recognition dialog.  The file holds the
   component twice.  An image is named by the number of the gesture that
   chose it, 0 is null; detectedIngredients is named by the image the
   ingredients were recognized in, 0 is the empty array; error is named by
   the operation the message is about.  dialog.streams
   holds, for each MediaStream that openCamera obtained, whether its tracks
   are live.  dialog.tasks are the promises, timers and file readers that
   have not settled.  After onClose the component is unmounted: its refs
   are null and its setters do nothing. *)

DialogCopies == {"first", "second"}

\* what getUserMedia settles with
MediaOutcomes == {"stream", "OverconstrainedError", "NotAllowedError"}

\* what recognizeIngredients and simulateRecognition settle with
RecognitionOutcomes == {"ingredients", "none", "throws"}

\* videoRef.current: the video element is rendered in the camera view only
videoRef == dialog.mounted /\ dialog.isCameraOpen

Task(id, kind, arg) == [id |-> id, kind |-> kind, arg |-> arg]

\* a state update of the component, which an unmounted component ignores
SetState(next) ==
    dialog' = IF dialog.mounted THEN next
              ELSE [dialog EXCEPT !.streams = next.streams, !.tasks = next.tasks]

Gesture ==
    /\ dialog.mounted
    /\ dialog.gestures < MaxGestures
    /\ phase = "off"

OthersUnchanged ==
    /\ UNCHANGED dbVars
    /\ UNCHANGED harnessVars
    /\ UNCHANGED <<service, generation, conn, seeding, client>>

\* a processImage whose finally is skipped when recognition throws
processDoneNoFinally(outcome) ==
    IF outcome = "throws" THEN dialog.isProcessing ELSE FALSE

\* isProcessing after processImage: finally { setIsProcessing(false) }
processDone(outcome) == FALSE

\* the camera button: openCamera up to its first await
ClickCamera(supported) ==
    /\ Gesture
    /\ dialog.selectedImage = 0 /\ ~dialog.isCameraOpen
    /\ IF supported
       THEN dialog' = [dialog EXCEPT !.isProcessing = TRUE, !.error = "null",
                       !.gestures = @ + 1,
                       !.tasks = @ \cup {Task(dialog.gestures + 1, "getUserMedia", 0)}]
       ELSE dialog' = [dialog EXCEPT !.isProcessing = FALSE, !.error = "camera",
                       !.isCameraOpen = dialog.copy = "first" /\ @,
                       !.gestures = @ + 1]
    /\ OthersUnchanged

\* openCamera from the answer of getUserMedia to its next await, or its end
GetUserMediaSettles(task, outcome) ==
    /\ task \in dialog.tasks /\ task.kind = "getUserMedia"
    /\ LET rest == dialog.tasks \ {task}
           stream == Len(dialog.streams) + 1
       IN  IF outcome = "stream"
           THEN IF dialog.copy = "second"
                THEN SetState([dialog EXCEPT !.streams = Append(@, TRUE),
                         !.isCameraOpen = TRUE,
                         !.tasks = rest \cup {Task(task.id, "timeout", stream)}])
                ELSE IF videoRef
                     THEN SetState([dialog EXCEPT !.streams = Append(@, TRUE),
                              !.streamRef = stream, !.video = "loading",
                              !.isCameraOpen = TRUE, !.error = "null", !.tasks = rest])
                     ELSE SetState([dialog EXCEPT !.streams = Append(@, TRUE),
                              !.isProcessing = FALSE, !.error = "camera", !.tasks = rest])
           ELSE IF dialog.copy = "second"
                THEN SetState([dialog EXCEPT !.isProcessing = FALSE, !.isCameraOpen = FALSE,
                         !.error = "camera",
                         !.tasks = IF outcome = "OverconstrainedError"
                                   THEN rest \cup {Task(task.id, "retry", 0)} ELSE rest])
                ELSE SetState([dialog EXCEPT !.isProcessing = FALSE, !.error = "camera",
                         !.tasks = rest])
    /\ OthersUnchanged

\* openCamera of the second copy after its wait of 150 ms
TimeoutFires(task) ==
    /\ task \in dialog.tasks /\ task.kind = "timeout"
    /\ IF videoRef
       THEN SetState([dialog EXCEPT !.streamRef = task.arg, !.video = "loading",
                !.error = "null", !.tasks = @ \ {task}])
       ELSE SetState([dialog EXCEPT !.isProcessing = FALSE, !.isCameraOpen = FALSE,
                !.error = "camera", !.tasks = @ \ {task}])
    /\ OthersUnchanged

\* openCamera of the second copy after getUserMedia({video: true}) settles
RetrySettles(task, ok) ==
    /\ task \in dialog.tasks /\ task.kind = "retry"
    /\ IF ok
       THEN IF videoRef
            THEN SetState([dialog EXCEPT !.streams = Append(@, TRUE),
                     !.streamRef = Len(dialog.streams) + 1, !.video = "loading",
                     !.isCameraOpen = TRUE, !.isProcessing = FALSE,
                     !.tasks = @ \ {task}])
            ELSE SetState([dialog EXCEPT !.streams = Append(@, TRUE), !.tasks = @ \ {task}])
       ELSE SetState([dialog EXCEPT !.error = "camera", !.tasks = @ \ {task}])
    /\ OthersUnchanged

\* videoRef.current.onloadedmetadata, and videoRef.current.onerror
VideoEvent(loaded) ==
    /\ videoRef /\ dialog.video = "loading"
    /\ IF loaded
       THEN dialog' = [dialog EXCEPT !.isProcessing = FALSE, !.video = "ready"]
       ELSE dialog' = [dialog EXCEPT !.isProcessing = FALSE, !.video = "none",
                       !.error = "camera"]
    /\ OthersUnchanged

\* closeCamera
closedCamera(d) ==
    [d EXCEPT !.streams = [s \in DOMAIN d.streams |-> d.streams[s] /\ s # d.streamRef],
              !.streamRef = 0, !.video = "none",
              !.isCameraOpen = FALSE, !.isProcessing = FALSE]

\* the Cancel button of the camera view
ClickCloseCamera ==
    /\ Gesture
    /\ dialog.isCameraOpen
    /\ dialog' = [closedCamera(dialog) EXCEPT !.gestures = @ + 1]
    /\ OthersUnchanged

\* capturePhoto: the button takes no click while isProcessing; a video
\* without metadata has width 0
ClickCapture ==
    /\ Gesture
    /\ dialog.isCameraOpen /\ ~dialog.isProcessing
    /\ IF dialog.video = "ready"
       THEN dialog' = [closedCamera(dialog) EXCEPT !.gestures = @ + 1,
                       !.selectedImage = dialog.gestures + 1,
                       !.detectedIngredients = 0, !.error = "null"]
       ELSE dialog' = [dialog EXCEPT !.error = "capture", !.gestures = @ + 1]
    /\ OthersUnchanged

\* handleFileUpload: a file is chosen and its reader started
ChooseFile ==
    /\ Gesture
    /\ dialog.selectedImage = 0 /\ ~dialog.isCameraOpen
    /\ dialog' = [dialog EXCEPT !.gestures = @ + 1,
                  !.tasks = @ \cup {Task(dialog.gestures + 1, "upload", dialog.gestures + 1)}]
    /\ OthersUnchanged

\* reader.onload of handleFileUpload
UploadLoads(task) ==
    /\ task \in dialog.tasks /\ task.kind = "upload"
    /\ SetState([dialog EXCEPT !.selectedImage = task.arg, !.detectedIngredients = 0,
                 !.error = "null", !.tasks = @ \ {task}])
    /\ OthersUnchanged

\* handleDrop: an image file is dropped on the card
DropFile ==
    /\ Gesture
    /\ dialog' = [dialog EXCEPT !.isProcessing = TRUE, !.gestures = @ + 1,
                  !.tasks = @ \cup {Task(dialog.gestures + 1, "drop", dialog.gestures + 1)}]
    /\ OthersUnchanged

\* reader.onload and reader.onerror of handleDrop
DropSettles(task, ok) ==
    /\ task \in dialog.tasks /\ task.kind = "drop"
    /\ IF ok
       THEN SetState([dialog EXCEPT !.selectedImage = task.arg, !.detectedIngredients = 0,
                !.error = "null", !.isProcessing = FALSE, !.tasks = @ \ {task}])
       ELSE SetState([dialog EXCEPT !.isProcessing = FALSE, !.error = "read",
                !.tasks = @ \ {task}])
    /\ OthersUnchanged

\* processImage up to its await; the button takes no click while isProcessing
ClickProcess ==
    /\ Gesture
    /\ dialog.selectedImage # 0 /\ ~dialog.isProcessing
    /\ dialog' = [dialog EXCEPT !.isProcessing = TRUE, !.error = "null", !.gestures = @ + 1,
                  !.tasks = @ \cup {Task(dialog.gestures + 1, "recognize", dialog.selectedImage)}]
    /\ OthersUnchanged

\* processImage after its await
RecognitionSettles(task, outcome) ==
    /\ task \in dialog.tasks /\ task.kind = "recognize"
    /\ SetState([dialog EXCEPT
           !.detectedIngredients = IF outcome = "ingredients" THEN task.arg
                                   ELSE IF outcome = "none" THEN 0 ELSE @,
           !.error = IF outcome = "throws" THEN "process" ELSE @,
           !.isProcessing = processDone(outcome),
           !.tasks = @ \ {task}])
    /\ OthersUnchanged

\* clearImage
ClickClear ==
    /\ Gesture
    /\ dialog.selectedImage # 0 \/ dialog.detectedIngredients # 0
    /\ dialog' = [dialog EXCEPT !.selectedImage = 0, !.detectedIngredients = 0,
                  !.error = "null", !.gestures = @ + 1]
    /\ OthersUnchanged

\* removeDetectedIngredient, of the last ingredient shown
ClickRemove ==
    /\ Gesture
    /\ dialog.detectedIngredients # 0
    /\ dialog' = [dialog EXCEPT !.detectedIngredients = 0, !.gestures = @ + 1]
    /\ OthersUnchanged

\* the X of the header, and addDetectedIngredients: onClose()
ClickClose(add) ==
    /\ Gesture
    /\ add => dialog.detectedIngredients # 0
    /\ dialog' = [dialog EXCEPT !.mounted = FALSE, !.gestures = @ + 1]
    /\ OthersUnchanged

\* the gestures of the user
DialogGestures ==
    \/ \E supported \in BOOLEAN : ClickCamera(supported)
    \/ ClickCloseCamera
    \/ ClickCapture
    \/ ChooseFile
    \/ DropFile
    \/ ClickProcess
    \/ ClickClear
    \/ ClickRemove
    \/ \E add \in BOOLEAN : ClickClose(add)

\* the callbacks the browser runs
DialogCallbacks ==
    \/ \E task \in dialog.tasks, outcome \in MediaOutcomes : GetUserMediaSettles(task, outcome)
    \/ \E task \in dialog.tasks : TimeoutFires(task)
    \/ \E task \in dialog.tasks, ok \in BOOLEAN : RetrySettles(task, ok)
    \/ \E loaded \in BOOLEAN : VideoEvent(loaded)
    \/ \E task \in dialog.tasks : UploadLoads(task)
    \/ \E task \in dialog.tasks, ok \in BOOLEAN : DropSettles(task, ok)
    \/ \E task \in dialog.tasks, outcome \in RecognitionOutcomes : RecognitionSettles(task, outcome)

InitDialog ==
    /\ DbEmpty
    /\ ScorerOff
    /\ service = ServiceOff
    /\ generation = GenerationOff
    /\ conn = ConnOff
    /\ seeding = SeedingOff
    /\ client = ClientOff
    /\ dialog \in {DialogState(copy, TRUE) : copy \in DialogCopies}

NextDialog == DialogGestures \/ DialogCallbacks

SpecDialog == InitDialog /\ [][NextDialog]_vars

\* every promise, timer, reader and media event of the browser settles
SpecDialogLive == SpecDialog /\ WF_vars(DialogCallbacks)

---------------------------------------------------------------------------
(* Properties of the recommendation result *)

Answered == response.branch # "none"

\* the documents of one user in a collection
DocsOf(coll, userId) == {d \in Range(coll) : d.userId = userId}

\* the stored recipes the answered user has neither rated nor favorited
NotInteracted ==
    {d \in Range(recipes) :
        \A x \in DocsOf(ratings, response.userId) \cup DocsOf(favorites, response.userId) :
            x.recipeId # d._id}

\* C1: no recipe whose id appears in the requesting user's Ratings or
\* Favorites is contained in the list a recommendation request returns.
C1_SelfExclusion ==
    Answered =>
        \A i \in DOMAIN response.recipes :
            \A x \in DocsOf(ratings, response.userId) \cup DocsOf(favorites, response.userId) :
                x.recipeId # response.recipes[i]._id

\* C1 witness: a scored answer that lists a recipe, for a user who has both
\* rated and favorited stored recipes, while another recipe stays out.
C1_Witness ==
    /\ Answered
    /\ response.branch = "scored"
    /\ Len(response.recipes) >= 1
    /\ \E x \in DocsOf(ratings, response.userId) : \E d \in Range(recipes) : d._id = x.recipeId
    /\ \E x \in DocsOf(favorites, response.userId) : \E d \in Range(recipes) : d._id = x.recipeId

\* C2 (as claimed): for a user with no Ratings and no Favorites the answer is
\* all recipes in trending order (avgRating descending, then ratingsCount
\* descending), cut to limit entries, and nothing is profiled or scored.
C2_ColdStartAsClaimed ==
    (/\ Answered
     /\ DocsOf(ratings, response.userId) = {}
     /\ DocsOf(favorites, response.userId) = {})
    => /\ response.branch = "cold"
       /\ response.scores = <<>>
       /\ response.profile = EmptyProfile
       /\ Len(response.recipes) = Min(Len(recipes), response.limit)
       /\ \A i \in DOMAIN response.recipes : response.recipes[i] \in Range(recipes)
       /\ \A i, j \in DOMAIN response.recipes :
             i < j => /\ response.recipes[i] # response.recipes[j]
                      /\ ~trendingBefore(response.recipes[j], response.recipes[i])
       /\ \A d \in Range(recipes) \ Range(response.recipes) :
             \A i \in DOMAIN response.recipes : ~trendingBefore(d, response.recipes[i])

\* C7 (as claimed): the answer has exactly min(N, L) entries, N the size of
\* the candidate set (all recipes in the cold-start branch), L the limit the
\* caller supplied.
C7_LimitAsClaimed ==
    Answered => Len(response.recipes) = Min(Cardinality(NotInteracted), response.limit)

---------------------------------------------------------------------------
(* Properties of the rating aggregate *)

RatingsOfRecipe(oid) == {i \in DOMAIN ratings : ratings[i].recipeId = oid}

\* the stored aggregate of a recipe document equals the mean and the number
\* of the Ratings stored for it
AggregateCurrent(doc) ==
    LET rs == RatingsOfRecipe(doc._id)
        sum == SumSeq([k \in 1..Len(ratings) |->
                          IF k \in rs THEN ratings[k].rating ELSE 0])
    IN rs # {} =>
          /\ Has(doc, "avgRating") /\ Has(doc, "ratingsCount")
          /\ doc.ratingsCount = Cardinality(rs)
          /\ QEq(doc.avgRating, Q(sum, Cardinality(rs)))

\* C3 (as claimed): with rating requests processed one at a time, every rated
\* recipe's stored avgRating is the mean of the Ratings stored for it and its
\* ratingsCount is their number.
C3_AggregateSequentialAsClaimed ==
    \A i \in DOMAIN recipes : AggregateCurrent(recipes[i])

\* C4 (as claimed): once all overlapping rating requests have completed, every
\* rated recipe's stored avgRating and ratingsCount are the mean and the count
\* of the Ratings then stored for it.
C4_AggregateQuiescentAsClaimed ==
    posts = {} => \A i \in DOMAIN recipes : AggregateCurrent(recipes[i])

\* one Rating per (userId, recipeId)
RatingKeyUnique ==
    \A i, j \in DOMAIN ratings :
        (ratings[i].userId = ratings[j].userId /\ ratings[i].recipeId = ratings[j].recipeId)
            => i = j

\* a rating request that has just written left exactly its value under its
\* key, replaced that key's document if there was one, and touched no other
LastWriteWins ==
    \A p \in posts' \ posts :
        p.pc = "aggregate" =>
            LET oid  == ObjectId(p.recipeId.hex)
                was  == {i \in DOMAIN ratings :
                            ratings[i].userId = p.userId /\ ratings[i].recipeId = oid}
                now  == {i \in DOMAIN ratings' :
                            ratings'[i].userId = p.userId /\ ratings'[i].recipeId = oid}
            IN /\ Cardinality(now) = 1
               /\ \A i \in now : ratings'[i].rating = p.rating
               /\ Len(ratings') = Len(ratings) + (IF was = {} THEN 1 ELSE 0)
               /\ \A i \in DOMAIN ratings : i \notin was => ratings'[i] = ratings[i]

\* C8: there is at most one Rating per (userId, recipeId), also when
\* re-ratings by the same user overlap, and a re-rating replaces the stored
\* value with its own instead of adding a second record.
C8_OneRatingPerKey == []RatingKeyUnique /\ [][LastWriteWins]_vars

\* C8 witness: two rating requests of the same user for the same recipe are in
\* flight together and one Rating is stored for the pair.
C8_Witness ==
    \E p, q \in posts :
        /\ p # q
        /\ p.userId = q.userId /\ p.recipeId = q.recipeId /\ p.rating # q.rating
        /\ Cardinality({i \in DOMAIN ratings : ratings[i].userId = p.userId
                            /\ ratings[i].recipeId = ObjectId(p.recipeId.hex)}) = 1

\* C9 (as claimed): every stored Rating has an integer value from 1 to 5.
C9_RatingRangeAsClaimed ==
    \A i \in DOMAIN ratings : ratings[i].rating \in 1..5

---------------------------------------------------------------------------
(* Properties of the scorer *)

\* the candidate without field f of its nutrition record
WithoutField(doc, f) ==
    IF Has(doc, "nutrition") /\ Has(doc.nutrition, f)
    THEN [doc EXCEPT !.nutrition = [g \in (DOMAIN doc.nutrition) \ {f} |-> doc.nutrition[g]]]
    ELSE doc

\* what field f adds to the computed score of the candidate
Contribution(f) ==
    QSub(score, calculateRecipeScore(impl, WithoutField(candidate, f), profile))

\* every interacted recipe carries field f, all with one value
SameValue(f) ==
    /\ preferred # <<>>
    /\ \A i \in DOMAIN preferred :
          Has(preferred[i], "nutrition") /\ Has(preferred[i].nutrition, f)
    /\ \A i, j \in DOMAIN preferred : preferred[i].nutrition[f] = preferred[j].nutrition[f]

\* C5 (as claimed): when every interacted recipe has the same value for a
\* nutrition field, that field adds exactly 0 to the candidate's score, for
\* calories, protein, carbs and fat alike.
C5_ZeroRangeAsClaimed ==
    phase = "scored" =>
        \A f \in Range(NutritionFields) : SameValue(f) => QEq(Contribution(f), QZero)

\* C6 (as claimed): a field adds (1 - |value - avg| / range) * 0.5 when the
\* profile average is > 0, the candidate has the field and range = max - min
\* is > 0, and adds nothing in every other case.
C6_NutritionTermAsClaimed ==
    phase = "scored" =>
        \A f \in Range(NutritionFields) :
            LET band  == profile.nutritionRanges[f]
                range == ExtSub(band.max, band.min)
            IN IF /\ band.avg.n > 0
                  /\ Has(candidate, "nutrition") /\ Has(candidate.nutrition, f)
                  /\ range.inf = 0 /\ range.q.n > 0
               THEN QEq(Contribution(f),
                        QMul(QSub(QInt(1),
                                  QDiv(QAbs(QSub(QInt(candidate.nutrition[f]), band.avg)),
                                       range.q)),
                             Q(1, 2)))
               ELSE QEq(Contribution(f), QZero)

\* the weight of the i-th interacted recipe: the user's rating value if the
\* recipe is rated, 3 if it is only favorited
WeightOf(i) ==
    LET mine == {k \in DOMAIN userRatings : userRatings[k].recipeId = preferred[i]._id}
    IN IF mine = {} THEN 3 ELSE userRatings[CHOOSE k \in mine : TRUE].rating

\* how often the i-th interacted recipe carries key under the list field
Occurrences(i, field, key) ==
    IF Has(preferred[i], field)
    THEN Cardinality({j \in DOMAIN preferred[i][field] : preferred[i][field][j] = key})
    ELSE 0

\* whether the i-th interacted recipe has key as its scalar field
Carries(i, field, key) ==
    IF Has(preferred[i], field) /\ preferred[i][field] = key THEN 1 ELSE 0

AllKeys == {"egg", "rice", "Asian", "Thai", "Easy", "Medium", "Hard", "quick", "vegan"}

\* map holds exactly the sums of count(i, key) * WeightOf(i) over the
\* interacted recipes, with a key for every recipe that carries it
MapIsWeightSum(map, count(_, _)) ==
    \A key \in AllKeys :
        LET carried == {i \in DOMAIN preferred : count(i, key) > 0}
            total   == SumSeq([i \in DOMAIN preferred |-> count(i, key) * WeightOf(i)])
        IN /\ (key \in DOMAIN map) <=> (carried # {})
           /\ key \in DOMAIN map => map[key] = total

\* C10: every weight in the ingredient, cuisine, difficulty and tag maps of
\* the built profile is the sum, over the interacted recipes carrying the key
\* (an ingredient listed twice counting twice), of the recipe's weight: the
\* rating value if rated, 3 if only favorited.
C10_ProfileWeights ==
    phase # "input" /\ phase # "off" =>
        /\ DOMAIN profile.ingredients \subseteq AllKeys
        /\ DOMAIN profile.tags \subseteq AllKeys
        /\ MapIsWeightSum(profile.ingredients, LAMBDA i, k : Occurrences(i, "ingredients", k))
        /\ MapIsWeightSum(profile.tags, LAMBDA i, k : Occurrences(i, "tags", k))
        /\ MapIsWeightSum(profile.cuisines, LAMBDA i, k : Carries(i, "cuisine", k))
        /\ MapIsWeightSum(profile.difficulties, LAMBDA i, k : Carries(i, "difficulty", k))

\* C10 witness: a profile built from a rated recipe that lists one ingredient
\* twice and a recipe that is only favorited, both carrying that ingredient.
C10_Witness ==
    /\ phase = "profiled"
    /\ \E i, j \in DOMAIN preferred :
          /\ i # j
          /\ Occurrences(i, "ingredients", "egg") = 2
          /\ Occurrences(j, "ingredients", "egg") = 1
          /\ \E k \in DOMAIN userRatings : userRatings[k].recipeId = preferred[i]._id
          /\ \A k \in DOMAIN userRatings : userRatings[k].recipeId # preferred[j]._id
    /\ profile.ingredients["egg"] > 3

\* the Ratings of a user who rated exactly the interacted recipes with 3
RatedThree ==
    [i \in DOMAIN preferred |->
        [userId |-> "u1", recipeId |-> preferred[i]._id, rating |-> 3]]

\* C11: the profile built for a user who has only favorited the interacted
\* recipes is the profile built for a user who rated exactly those recipes
\* with 3: the four weight maps and the four nutrition bands are the same.
C11_FavoriteAsRatingThree ==
    (phase # "input" /\ phase # "off" /\ userRatings = <<>>) =>
        LET rated == buildPreferenceProfile(impl, preferred, RatedThree)
        IN /\ profile.ingredients = rated.ingredients
           /\ profile.cuisines = rated.cuisines
           /\ profile.difficulties = rated.difficulties
           /\ profile.tags = rated.tags
           /\ \A f \in Range(NutritionFields) :
                 profile.nutritionRanges[f] = rated.nutritionRanges[f]

\* C11 witness: a profile built from two favorited, unrated recipes that
\* carry ingredients, a cuisine and nutrition values.
C11_Witness ==
    /\ phase = "profiled"
    /\ userRatings = <<>>
    /\ Len(preferred) >= 2
    /\ profile.ingredients # <<>>
    /\ profile.cuisines # <<>>
    /\ profile.nutritionRanges["calories"].avg.n > 0

\* the weight a map of the profile holds for a key, 0 for an absent key
Lookup(map, key) == IF key \in DOMAIN map THEN map[key] ELSE 0

\* the sum of the weights the map holds for the names listed under field
ListWeight(doc, field, map) ==
    IF Has(doc, field)
    THEN SumSeq([j \in DOMAIN doc[field] |-> Lookup(map, doc[field][j])])
    ELSE 0

\* the weight the map holds for the value of the scalar field
ScalarWeight(doc, field, map) ==
    IF Has(doc, field) THEN Lookup(map, doc[field]) ELSE 0

\* the candidate carries no nutrition and no popularity data
PlainCandidate ==
    /\ ~Has(candidate, "nutrition")
    /\ ~Has(candidate, "avgRating")
    /\ ~Has(candidate, "ratingsCount")

InitialBand(f) ==
    /\ profile.nutritionRanges[f].min = Infinity
    /\ profile.nutritionRanges[f].max = NegInfinity
    /\ QEq(profile.nutritionRanges[f].avg, QZero)

\* C13: the term of a nutrition band that is still min = +Infinity,
\* max = -Infinity, avg = 0 is skipped, and every term that is evaluated
\* divides a finite difference by a non-zero divisor between finite bounds,
\* so the score is a finite number.
C13_DegenerateBandSkipped ==
    phase = "scored" =>
        \A f \in Range(NutritionFields) :
            /\ InitialBand(f) =>
                  /\ ~fieldScored(impl, f, candidate, profile)
                  /\ QEq(Contribution(f), QZero)
            /\ profile.nutritionRanges[f].min.inf = 0
                  <=> profile.nutritionRanges[f].max.inf = 0
            /\ fieldScored(impl, f, candidate, profile) =>
                  /\ profile.nutritionRanges[f].min.inf = 0
                  /\ profile.nutritionRanges[f].max.inf = 0
                  /\ fieldDivisor(impl, f, profile).inf = 0
                  /\ fieldDivisor(impl, f, profile).q.n # 0

\* C13 witness: a candidate carrying a non-zero value for a field whose band
\* is in the initial state is scored against a profile that has another band
\* filled, whose term is evaluated.
C13_Witness ==
    /\ phase = "scored"
    /\ \E f, g \in Range(NutritionFields) :
          /\ InitialBand(f)
          /\ Has(candidate, "nutrition") /\ Has(candidate.nutrition, f)
          /\ candidate.nutrition[f] # 0
          /\ fieldScored(impl, g, candidate, profile)

\* the score of a stored recipe under the answered profile
AnsweredScore(doc) == calculateRecipeScore(response.copy, doc, response.profile)

\* C14: in the scored branch the returned list is in non-increasing score
\* order, and no candidate left out of it has a higher score than a
\* candidate in it.
C14_DescendingScore ==
    (Answered /\ response.branch = "scored") =>
        /\ Len(response.scores) = Len(response.recipes)
        /\ \A i \in DOMAIN response.recipes :
              /\ response.recipes[i] \in NotInteracted
              /\ QEq(response.scores[i], AnsweredScore(response.recipes[i]))
        /\ \A i, j \in DOMAIN response.recipes :
              i < j => QLe(AnsweredScore(response.recipes[j]),
                           AnsweredScore(response.recipes[i]))
        /\ \A d \in NotInteracted \ Range(response.recipes) :
              \A i \in DOMAIN response.recipes :
                  QLe(AnsweredScore(d), AnsweredScore(response.recipes[i]))

\* C14 witness: of two candidates the one stored later scores higher and is
\* the only one listed, the limit leaving the other out.
C14_Witness ==
    /\ Answered
    /\ response.branch = "scored"
    /\ response.candidates = 2
    /\ Len(response.recipes) = 1
    /\ \E d \in NotInteracted \ Range(response.recipes) :
          /\ d._id.hex < response.recipes[1]._id.hex
          /\ QLt(AnsweredScore(d), AnsweredScore(response.recipes[1]))

\* the stored recipes the answered user has rated or favorited
Interacted(i) ==
    \E x \in DocsOf(ratings, response.userId) \cup DocsOf(favorites, response.userId) :
        x.recipeId = recipes[i]._id

\* the weight of a stored recipe for the answered user as the collections
\* stand: the value of the user's Rating of it, 3 without one
CurrentWeight(i) ==
    LET mine == {r \in DocsOf(ratings, response.userId) : r.recipeId = recipes[i]._id}
    IN IF mine = {} THEN 3 ELSE (CHOOSE r \in mine : TRUE).rating

\* the weight the answered user's history gives a key of a list field
CurrentListWeight(field, key) ==
    SumSeq([i \in DOMAIN recipes |->
        IF Interacted(i)
        THEN CurrentWeight(i)
               * Cardinality({j \in DOMAIN recipes[i][field] : recipes[i][field][j] = key})
        ELSE 0])

\* the weight the answered user's history gives a value of a scalar field
CurrentScalarWeight(field, key) ==
    SumSeq([i \in DOMAIN recipes |->
        IF Interacted(i) /\ Has(recipes[i], field) /\ recipes[i][field] = key
        THEN CurrentWeight(i) ELSE 0])

\* C15: a recommendation request is computed from the Ratings and Favorites
\* as they stand when it is served: it takes the scored branch exactly when
\* the user has a Rating or a Favorite, every recipe the user has rated or
\* favorited is left out of the list, and the profile weights are those of
\* the stored rating values (3 for a recipe that is only favorited).
C15_ReflectsStoredHistory ==
    Answered =>
        LET mine == DocsOf(ratings, response.userId) \cup DocsOf(favorites, response.userId)
        IN /\ (response.branch = "scored") <=> (mine # {})
           /\ \A i \in DOMAIN response.recipes :
                 \A x \in mine : x.recipeId # response.recipes[i]._id
           /\ response.branch = "scored" =>
                 \A key \in AllKeys :
                    /\ Lookup(response.profile.ingredients, key)
                          = CurrentListWeight("ingredients", key)
                    /\ Lookup(response.profile.tags, key) = CurrentListWeight("tags", key)
                    /\ Lookup(response.profile.cuisines, key)
                          = CurrentScalarWeight("cuisine", key)
                    /\ Lookup(response.profile.difficulties, key)
                          = CurrentScalarWeight("difficulty", key)

\* C15 witness: the answered user holds a Rating of 2 for a stored recipe;
\* the recipe is not listed, another recipe is, and the profile weighs the
\* rated recipe's cuisine with 2.
C15_Witness ==
    /\ Answered
    /\ response.branch = "scored"
    /\ Len(response.recipes) = 1
    /\ \E i \in DOMAIN recipes :
          /\ Interacted(i)
          /\ CurrentWeight(i) = 2
          /\ Has(recipes[i], "cuisine")
          /\ Lookup(response.profile.cuisines, recipes[i].cuisine) = 2

---------------------------------------------------------------------------
(* Properties of the favorites *)

\* the Favorites stored for a pair
FavoritesOf(coll, userId, id) ==
    {i \in DOMAIN coll : coll[i].userId = userId /\ coll[i].recipeId = ObjectId(id.hex)}

\* one Favorite per (userId, recipeId)
FavoriteKeyUnique ==
    \A u \in Users, id \in RecipeIdStrings : Cardinality(FavoritesOf(favorites, u, id)) <= 1

\* what a step of a writing request does to each pair: a favorite request
\* leaves the pair with a Favorite and changes nothing when there was one, an
\* unfavorite request leaves it without and changes nothing when there was
\* none, and every other step leaves the pair as it was
FavoriteStep ==
    \A u \in Users, id \in RecipeIdStrings :
        LET body  == [recipeId |-> id]
            was   == FavoritesOf(favorites, u, id) # {}
            now   == FavoritesOf(favorites', u, id) # {}
            \* what every accepted favorite or unfavorite request does
            count == ops' = ops + 1 /\ response'.branch = "none" /\ ratings' = ratings
            post  == count /\ PostFavorite(u, body)
            del   == count /\ DeleteFavorite(u, body)
        IN /\ post => /\ now
                      /\ was => favorites' = favorites
           /\ del => /\ ~now
                     /\ ~was => favorites' = favorites
           /\ (~post /\ ~del) => (now <=> was)

\* C16: at most one Favorite exists per (userId, recipeId); one exists exactly
\* when the last request for the pair was a favorite request, and a repeated
\* favorite or unfavorite request changes nothing.
C16_FavoriteToggle == []FavoriteKeyUnique /\ [][FavoriteStep]_vars

\* C16 witness: after the last request that is accepted, a history of
\* favorite and unfavorite requests alone has left one user with one Favorite.
C16_Witness ==
    /\ ops = MaxOps
    /\ response.branch = "none"
    /\ ratings = <<>>
    /\ nextId = 0
    /\ Len(favorites) = 1

---------------------------------------------------------------------------
(* Properties of a recommendation request as a step *)

\* C17: a recommendation request leaves every Recipe, Rating and Favorite
\* record as it was: the step that produces an answer changes none of the
\* three collections.
C17_ReadOnly ==
    [][Answered' => /\ recipes' = recipes
                    /\ ratings' = ratings
                    /\ favorites' = favorites]_vars

\* C17 witness: a request has been answered with a non-empty list over
\* collections that hold recipes, a Rating and a Favorite.
C17_Witness ==
    /\ Answered
    /\ Len(response.recipes) >= 1
    /\ ratings # <<>>
    /\ favorites # <<>>

\* the step answers the request that was answered last once more: same user,
\* same limit, same copy, and the collections are as they were
Repeated ==
    /\ Answered /\ Answered'
    /\ response'.userId = response.userId
    /\ response'.limit = response.limit
    /\ response'.copy = response.copy
    /\ recipes' = recipes /\ ratings' = ratings /\ favorites' = favorites

C19_EmptyCandidates ==
    (/\ response.branch # "none"
     /\ DocsOf(ratings, response.userId) \cup DocsOf(favorites, response.userId) # {}
     /\ NotInteracted = {})
    => /\ response.branch = "scored"
       /\ response.candidates = 0
       /\ response.recipes = <<>>

\* C19 witness: a user who has rated or favorited every one of at least two
\* stored recipes asks for a positive number of recommendations and is
\* answered.
C19_Witness ==
    /\ Answered
    /\ response.limit >= 1
    /\ Len(recipes) >= 2
    /\ NotInteracted = {}
    /\ response.recipes = <<>>

---------------------------------------------------------------------------
(* Image recognition without Gemini *)

Recognized == service.result.kind # "none"

\* the call found the service uninitialised, or the Gemini call was
\* rejected, or its text did not parse
GeminiUnavailable ==
    \/ service.answer.kind \in {"notCalled", "apiError"}
    \/ parseFails(service.answer)

\* C20: when Gemini is not available (the service was never initialised, the
\* Gemini call fails, or its answer does not parse), recognizeIngredients
\* returns a result, simulated or degraded, and does not fail with an error.
\* The copy built on getGenerativeModel throws in the first two cases.
C20_FallbackAsClaimed ==
    (Recognized /\ GeminiUnavailable) => service.result.kind = "result"

---------------------------------------------------------------------------
(* Recipe generation without a usable answer *)

Generated == generation.result.kind # "none"

\* the AI call threw, or its answer is no JSON, is empty, or holds an
\* element that cannot be read as a recipe
AnswerUnusable == tryThrows(generation.answer)

FallbackIds(recipeDocs) == \A i \in DOMAIN recipeDocs : recipeDocs[i].id = <<"fallback", i - 1>>

\* C21: generateRecipes never fails: it always returns a response whose
\* totalGenerated is the number of recipes returned, and when the AI call
\* throws or its answer is empty or invalid the recipes are the locally
\* generated fallback recipes, as many as the request asks for.
C21_GenerateNeverFails ==
    Generated =>
        /\ generation.result.kind = "result"
        /\ generation.result.totalGenerated = Len(generation.result.recipes)
        /\ AnswerUnusable =>
              /\ FallbackIds(generation.result.recipes)
              /\ Len(generation.result.recipes) = fallbackCount(generation.request)
        /\ ~AnswerUnusable =>
              Len(generation.result.recipes) = Len(recipeList(generation.answer.value))

\* C21 witness: an answer whose second element is null ends in the catch
\* block, and the request without numRecipes gets three fallback recipes.
C21_Witness ==
    /\ Generated
    /\ generation.answer.kind = "value"
    /\ Len(recipeList(generation.answer.value)) = 2
    /\ recipeList(generation.answer.value)[2] = JsonNull
    /\ generation.request.numRecipes = <<>>
    /\ generation.result.totalGenerated = 3

---------------------------------------------------------------------------
(* Properties of dbConnect *)

ReturnedCalls == {c \in 1..MaxCalls : conn.calls[c].pc = "returned"}

\* C22: however many calls of dbConnect overlap before the first connection
\* is established, mongoose.connect is invoked at most once and every caller
\* that returns receives the same connection, which is the cached one.
C22_ConnectOnce ==
    /\ conn.connects <= 1
    /\ \A c, d \in ReturnedCalls : conn.calls[c].value = conn.calls[d].value
    /\ \A c \in ReturnedCalls : conn.calls[c].value # 0 /\ conn.calls[c].value = conn.cached.conn

\* C22 witness: every call entered before a connection was cached and
\* awaited the promise, and all of them have returned.
C22_Witness ==
    /\ ReturnedCalls = 1..MaxCalls
    /\ \A c \in 1..MaxCalls : conn.calls[c].waited
    /\ conn.connects = 1

\* C23 (as claimed): a call that enters dbConnect after a connection attempt
\* has failed starts a new attempt and does not fail with the earlier error.
\* The rejected promise stays in cached.promise, so every later call awaits it.
C23_RetryAsClaimed ==
    \A c \in 1..MaxCalls : ~(conn.calls[c].pc = "failed" /\ conn.calls[c].late)

---------------------------------------------------------------------------
(* Ratings and Favorites of recipes that are gone *)

RecipeExists(oid) == \E i \in DOMAIN recipes : recipes[i]._id = oid

\* C24 (as claimed): after any sequence of recipe save, recipe delete, rate,
\* favorite and unfavorite requests, every stored Rating and every stored
\* Favorite refers to a Recipe that exists.  DELETE /api/recipes removes
\* recipes only, and the rating and favorite routes store any recipeId.
C24_NoDanglingAsClaimed ==
    /\ \A i \in DOMAIN ratings : RecipeExists(ratings[i].recipeId)
    /\ \A i \in DOMAIN favorites : RecipeExists(favorites[i].recipeId)

---------------------------------------------------------------------------
(* Seeding of the recipe collection *)

SeedCopies == {i \in DOMAIN recipes : recipes[i].name = SeedBody.name}

\* C25 (as claimed): the seed recipes are inserted at most once per empty
\* collection: once no GET /api/recipes is under way, one copy of the seed
\* recipe is stored at most.  Two requests that both count 0 both insert.
C25_SeedOnceAsClaimed ==
    seeding = {} => Cardinality(SeedCopies) <= 1

---------------------------------------------------------------------------
(* Stored copies of a generated recipe *)

GeneratedCopies == {i \in DOMAIN recipes : recipes[i].name = GeneratedBody.name}

\* C26 (as claimed): rating, favoriting or saving the same generated recipe
\* any number of times, from the list or from the detail view, creates at
\* most one stored Recipe for it.  The Save buttons post the recipe without
\* looking at its id, and the detail view keeps the object it was opened with.
C26_OneStoredRecipeAsClaimed ==
    Cardinality(GeneratedCopies) <= 1

---------------------------------------------------------------------------
(* The recognition dialog *)

LiveStreams == {s \in DOMAIN dialog.streams : dialog.streams[s]}

\* C27 (as claimed): whenever the camera view is not shown or the dialog has
\* been closed, every stream that openCamera obtained has its tracks
\* stopped.  onClose unmounts the component with no cleanup, and openCamera
\* drops a stream it cannot attach to a video element.
C27_StreamsStoppedAsClaimed ==
    (~dialog.isCameraOpen \/ ~dialog.mounted) => LiveStreams = {}

\* C28 (as claimed): the detected ingredients belong to the selected image,
\* and there are none when no image is selected.  processImage stores the
\* answer whatever has become of the image it was started for.
C28_ResultOfSelectedAsClaimed ==
    dialog.mounted =>
        dialog.detectedIngredients \in {0, dialog.selectedImage}

\* C29: while the dialog is shown, isProcessing being true leads to
\* isProcessing being false, whatever the outcome of the operation that set it
C29_ProcessingEnds ==
    (dialog.mounted /\ dialog.isProcessing) ~> (~dialog.mounted \/ ~dialog.isProcessing)

\* recognition has thrown, and the dialog is not processing any more
C29_Witness ==
    /\ dialog.mounted /\ ~dialog.isProcessing
    /\ dialog.error = "process"
    /\ dialog.tasks = {}

=============================================================================
